---- MODULE Spec2Model ----
(***************************************************************************)
(* Quality-tiered rasterization and page-combination pipeline of the       *)
(* multimodal chatbot: the quality policies, the composite builder, the    *)
(* image pipeline and the PDF pipeline of anthropic_ocr.py together with   *)
(* the batch loop of its main(), and the legacy converter of               *)
(* testing/st_img_4o_pdf.py.                                               *)
(*                                                                         *)
(* Reals are kept exact: a zoom factor is held in hundredths (1.0 -> 100,  *)
(* 0.45 -> 45) and every product with it is divided by ZoomDen.            *)
(***************************************************************************)
EXTENDS Integers, Sequences, FiniteSets, TLC

(***************************************************************************)
(* Bounds of the model.                                                    *)
(***************************************************************************)
\* largest page count of the single uploaded document
MaxPages == 10
\* largest page count of a document inside a batch of two files
MaxBatchPages == 3
\* longest image list handed to combine_images_vertically on its own
MaxImgs == 3

\* denominator of the zoom factors
ZoomDen == 100

(***************************************************************************)
(* Small helpers.                                                          *)
(***************************************************************************)
Min(a, b) == IF a < b THEN a ELSE b

\* mutant: the quotient rounded down instead of up
FloorDiv(a, b) == a \div b

\* mutant: one more than the quotient, right only when b does not divide a
CeilDiv_plus_one(a, b) == a \div b + 1

\* math.ceil(a / b) for a >= 0, b > 0
CeilDiv(a, b) == (a + b - 1) \div b

\* the page indices a..b-1 in ascending order
PagesFromTo(a, b) == [k \in 1..(b - a) |-> a + k - 1]

RECURSIVE SumSeq(_)
SumSeq(s) == IF s = <<>> THEN 0 ELSE s[1] + SumSeq(Tail(s))

RECURSIVE MaxSeq(_)
MaxSeq(s) == IF Len(s) = 1 THEN s[1]
             ELSE LET m == MaxSeq(Tail(s)) IN IF s[1] > m THEN s[1] ELSE m

\* outcome of a dictionary subscript with a missing key (no table value is
\* negative)
KeyError == -1
\* Python's None
None == [none |-> TRUE]

(***************************************************************************)
(* Quality Policy (anthropic_ocr.py).                                      *)
(***************************************************************************)
\* options of both select_sliders, lowest quality first
QualityOptions == <<"Very Low", "Low", "Medium", "High", "Very High">>

QualityLevels == {QualityOptions[i] : i \in 1..Len(QualityOptions)}

zoom_quality_map ==
    [q \in QualityLevels |->
        CASE q = "Very High" -> 100
          [] q = "High"      -> 70
          [] q = "Medium"    -> 45
          [] q = "Low"       -> 30
          [] q = "Very Low"  -> 20]

\* mutant: the table read upside down, the lowest level given the largest zoom
get_zoom_factor_inverted(q) ==
    IF q \in DOMAIN zoom_quality_map
    THEN zoom_quality_map[CHOOSE r \in QualityLevels :
             \E i \in 1..5 : QualityOptions[i] = q /\ QualityOptions[6 - i] = r]
    ELSE KeyError

get_zoom_factor(q) ==
    IF q \in DOMAIN zoom_quality_map THEN zoom_quality_map[q] ELSE KeyError

pages_quality_map ==
    [q \in QualityLevels |->
        CASE q = "Very High" -> 1
          [] q = "High"      -> 2
          [] q = "Medium"    -> 4
          [] q = "Low"       -> 6
          [] q = "Very Low"  -> 8]

get_pages_per_image(q) ==
    IF q \in DOMAIN pages_quality_map THEN pages_quality_map[q] ELSE KeyError

(***************************************************************************)
(* Composite Builder (anthropic_ocr.py, combine_images_vertically).        *)
(* An image is a record with its mode, width, height and the pages it      *)
(* shows; the canvas records where every image was pasted.                 *)
(***************************************************************************)
\* mutant: the image pushed to the right edge instead of centred
x_offset_right_aligned(max_width, img) == max_width - img.width

\* x_offset of one image on a canvas of width max_width
x_offset_of(max_width, img) == (max_width - img.width) \div 2

\* the paste loop: images[k..] pasted from vertical offset y_offset on
RECURSIVE paste_loop(_, _, _, _)
paste_loop(images, k, max_width, y_offset) ==
    IF k > Len(images) THEN <<>>
    ELSE <<[x |-> x_offset_of(max_width, images[k]), y |-> y_offset,
            width |-> images[k].width, height |-> images[k].height,
            page |-> images[k].page]>>
         \o paste_loop(images, k + 1, max_width, y_offset + images[k].height)

\* mutant: the canvas sized from the first image alone
combine_images_first_size(images) ==
    IF images = <<>> THEN None
    ELSE [mode |-> "RGB", width |-> images[1].width,
          height |-> images[1].height * Len(images),
          background |-> "white",
          pastes |-> paste_loop(images, 1, images[1].width, 0)]

combine_images_vertically(images) ==
    IF images = <<>> THEN None
    ELSE LET total_height == SumSeq([k \in 1..Len(images) |-> images[k].height])
             max_width == MaxSeq([k \in 1..Len(images) |-> images[k].width])
         IN [mode |-> "RGB", width |-> max_width, height |-> total_height,
             background |-> "white",
             pastes |-> paste_loop(images, 1, max_width, 0)]

(***************************************************************************)
(* Inputs: the uploaded files.  A PDF has a page count, a page layout and  *)
(* possibly a first page that cannot be rendered (bad_page, 1-based, 0 for *)
(* none); an image has a PIL mode, a size and possibly a 'transparency'    *)
(* entry in its info.  Its content is one representative pixel: the value  *)
(* of its colour bands (pixel) and of its alpha band (alpha, 255 when the  *)
(* mode has none).  A file that is not openable is malformed.              *)
(***************************************************************************)
PageLayouts == {"uniform", "mixed"}

\* intrinsic size of page page_num (0-based) of a document
page_rect(file, page_num) ==
    IF file.layout = "uniform" THEN [width |-> 10, height |-> 14]
    ELSE [width  |-> <<10, 15, 12>>[(page_num % 3) + 1],
          height |-> <<14, 9, 11>>[(page_num % 3) + 1]]

PdfFiles(name, maxPages, layouts) ==
    {[name |-> name, type |-> "application/pdf", openable |-> TRUE,
      page_count |-> n, layout |-> l, bad_page |-> b,
      mode |-> "RGB", transparency |-> FALSE, width |-> 0, height |-> 0,
      pixel |-> 0, alpha |-> 255] :
        n \in 0..maxPages, l \in layouts, b \in 0..maxPages}
    \cup
    {[name |-> name, type |-> "application/pdf", openable |-> FALSE,
      page_count |-> 0, layout |-> "uniform", bad_page |-> 0,
      mode |-> "RGB", transparency |-> FALSE, width |-> 0, height |-> 0,
      pixel |-> 0, alpha |-> 255]}

\* a document is well formed when its bad page, if any, is one of its pages
\* and a one-page-kind layout is not listed twice
WellFormed(file) ==
    /\ file.bad_page <= file.page_count
    /\ (file.page_count = 0 => file.layout = "uniform")

ImageModes == {"L", "LA", "P", "PA", "RGB", "RGBA", "CMYK"}

\* modes whose files can carry a 'transparency' info entry (PNG tRNS chunk)
TransparencyInfoModes == {"L", "P", "RGB"}

\* modes with an alpha band, and the files whose pixels can be less than opaque
AlphaModes == {"RGBA", "LA", "PA"}

HasAlpha(file) ==
    file.mode \in AlphaModes \/ (file.mode = "P" /\ file.transparency)

\* values of the representative pixel: black or mid grey, and transparent,
\* half transparent or opaque
PixelValues == {0, 128}
AlphaValues == {0, 128, 255}

ImageFiles(name, modes, widths, heights) ==
    {[name |-> name, type |-> "image/png", openable |-> TRUE,
      page_count |-> 0, layout |-> "uniform", bad_page |-> 0,
      mode |-> m, transparency |-> t, width |-> w, height |-> h,
      pixel |-> v, alpha |-> a] :
        m \in modes, t \in BOOLEAN, w \in widths, h \in heights,
        v \in PixelValues, a \in AlphaValues}
    \cup
    {[name |-> name, type |-> "image/png", openable |-> FALSE,
      page_count |-> 0, layout |-> "uniform", bad_page |-> 0,
      mode |-> "RGB", transparency |-> FALSE, width |-> 0, height |-> 0,
      pixel |-> 0, alpha |-> 255]}

WellFormedImage(file) ==
    /\ file.transparency => file.mode \in TransparencyInfoModes
    /\ file.alpha # 255 => HasAlpha(file)

\* name of the file at position i of the uploader
FileName(i, type) ==
    "file" \o ToString(i) \o (IF type = "pdf" THEN ".pdf" ELSE ".png")

(***************************************************************************)
(* Page Rasterizer: page.get_pixmap(matrix = Matrix(zoom, zoom)) followed  *)
(* by Image.frombytes.  The pixmap covers the scaled page rectangle,       *)
(* rounded outwards to whole pixels.                                       *)
(***************************************************************************)
get_pixmap(file, page_num, zoom_factor) ==
    [mode |-> "RGB",
     width  |-> (page_rect(file, page_num).width * zoom_factor + ZoomDen - 1)
                    \div ZoomDen,
     height |-> (page_rect(file, page_num).height * zoom_factor + ZoomDen - 1)
                    \div ZoomDen,
     page |-> page_num]

(***************************************************************************)
(* Color Normalizer and the rest of process_image (anthropic_ocr.py).      *)
(***************************************************************************)
\* Image.open of a well-formed image file
image_open(file) ==
    [mode |-> file.mode, width |-> file.width, height |-> file.height,
     transparency |-> file.transparency, over_white |-> FALSE,
     pixel |-> file.pixel, alpha |-> file.alpha]

\* img.convert(mode): same size and colour, new mode, no compositing; the
\* alpha band is kept only by a mode that has one
convert(img, mode) ==
    [img EXCEPT !.mode = mode,
                !.alpha = IF mode \in AlphaModes THEN @ ELSE 255]

\* background.paste(img, mask) on a white canvas, one 8-bit band: the pixel
\* in blended over 255 through the mask value, as the paste of PIL rounds it
paste_over_white(in, mask) ==
    LET tmp == 255 * (255 - mask) + in * mask + 128
    IN ((tmp \div 256) + tmp) \div 256

\* lines 73-77: a white RGB canvas of img.size, img pasted through its last
\* band
white_background(img, mask) ==
    [mode |-> "RGB", width |-> img.width, height |-> img.height,
     transparency |-> FALSE, over_white |-> TRUE,
     pixel |-> paste_over_white(img.pixel, mask), alpha |-> 255]

\* mutant: only the alpha branch, no conversion of the other modes
normalize_color_alpha_only(img) ==
    IF img.mode \in {"RGBA", "LA"} \/ (img.mode = "P" /\ img.transparency)
    THEN white_background(img, img.alpha)
    ELSE img

\* mutant: RGB listed among the modes that are pasted through their last band
normalize_color_rgb_masked(img) ==
    IF img.mode \in {"RGBA", "LA", "RGB"}
           \/ (img.mode = "P" /\ img.transparency)
    THEN white_background(img,
             IF img.mode = "RGB" THEN img.pixel ELSE img.alpha)
    ELSE IF img.mode # "RGB" THEN convert(img, "RGB")
    ELSE img

\* lines 71-79 of process_image
normalize_color(img) ==
    IF img.mode \in {"RGBA", "LA"} \/ (img.mode = "P" /\ img.transparency)
    THEN white_background(img, img.alpha)
    ELSE IF img.mode # "RGB" THEN convert(img, "RGB")
    ELSE img

\* the largest power of two below n, from p on: n lies in (p, 2p]
RECURSIVE binade_below(_, _)
binade_below(n, p) == IF 2 * p < n THEN binade_below(n, 2 * p) ELSE p

\* dim * zoom in IEEE double arithmetic falls short of the integer that the
\* exact product is.  The double of 0.7 is 0.7 - 0.4 / 2^53; the product with
\* dim is then N - 0.4 * dim / 2^53 for N = 0.7 * dim, and it is rounded to
\* the double below N when that error exceeds half the spacing p / 2^53 of
\* the doubles in (p, 2p].  The doubles of 0.45 and 0.2 lie above the
\* decimal, and the error of 0.3 (0.1 / 2^53 per unit) never reaches half a
\* spacing, so that only the zoom 0.7 has such products (dim = 90, 170, ...).
float_short(dim, zoom) ==
    /\ zoom = 70
    /\ dim > 0
    /\ (dim * zoom) % ZoomDen = 0
    /\ 4 * dim > 10 * binade_below((dim * zoom) \div ZoomDen, 1)

\* mutant: the product rounded to the nearest integer
scaled_dim_nearest(dim, zoom) == (dim * zoom + ZoomDen \div 2) \div ZoomDen

\* int(dim * zoom): the double product truncated
scaled_dim(dim, zoom) ==
    IF float_short(dim, zoom) THEN (dim * zoom) \div ZoomDen - 1
    ELSE (dim * zoom) \div ZoomDen

\* modes the JPEG encoder accepts
JpegModes == {"1", "L", "RGB", "RGBX", "CMYK", "YCbCr"}

\* img.save(buffer, format='JPEG', quality=95): the payload, or None when the
\* encoder refuses the image
save_jpeg(img, pages, name) ==
    IF img.mode \in JpegModes /\ img.width >= 1 /\ img.height >= 1
    THEN [format |-> "JPEG", mode |-> img.mode, width |-> img.width,
          height |-> img.height, pages |-> pages, src |-> name]
    ELSE None

(***************************************************************************)
(* Caption of a page group (pdf_to_images, lines 141-145).                 *)
(***************************************************************************)
\* mutant: no singular form for a one-page group
page_range_always_plural(start_page, end_page) ==
    "Pages " \o ToString(start_page + 1) \o "-" \o ToString(end_page)

page_range(start_page, end_page) ==
    IF end_page = start_page + 1
    THEN "Page " \o ToString(start_page + 1)
    ELSE "Pages " \o ToString(start_page + 1) \o "-" \o ToString(end_page)

caption_of(name, start_page, end_page) ==
    name \o " - " \o page_range(start_page, end_page)

(***************************************************************************)
(* State of one script run of main() in anthropic_ocr.py.                  *)
(***************************************************************************)
VARIABLES
    uploaded_files,     \* what the file uploader returns, in upload order
    quality,            \* "Overall Quality" slider
    pdf_quality,        \* "PDF Quality" slider
    pc,                 \* position of the run
    file_idx,           \* position of the batch loop in uploaded_files
    processed_images,   \* st.session_state.processed_images
    image_captions,     \* st.session_state.image_captions
    errors,             \* the st.error reports, in order
    documents,          \* state of the fitz document handle of each file
    pdf,                \* locals of pdf_to_images
    img,                \* local img of process_image
    combine_input,      \* argument of a direct call of combine_images_vertically
    combine_pc,         \* position of that call
    combined,           \* its return value
    legacy_file,        \* pdf_file of convert_pdf_to_images (st_img_4o_pdf.py)
    quality_level,      \* its quality_level, the 1..5 slider
    legacy_pc,          \* position of that call
    legacy,             \* its locals
    policy,             \* a pair of lookups in one of the policy tables
    resize,             \* a call of convert_pdf_to_images (img_pdf_resize.py)
    session,            \* st.session_state of img_pdf_resize.py
    v2,                 \* main() and convert_pdf_to_images of img_pdf_v2.py
    messages,           \* st.session_state.messages, the chat history
    chat                \* the chat part of a script run and its widgets

vars == <<uploaded_files, quality, pdf_quality, pc, file_idx,
          processed_images, image_captions, errors, documents, pdf, img,
          combine_input, combine_pc, combined,
          legacy_file, quality_level, legacy_pc, legacy, policy, resize,
          session, v2, messages, chat>>

\* the other application and the chat, untouched by the file processing
apps == <<v2, messages, chat>>

\* state of the components that take no part in a script run of main()
aside == <<policy, resize, session, apps>>

others == <<combine_input, combine_pc, combined,
            legacy_file, quality_level, legacy_pc, legacy, aside>>

run == <<uploaded_files, quality, pdf_quality, pc, file_idx,
         processed_images, image_captions, errors, documents, pdf, img>>

inputs == <<uploaded_files, quality, pdf_quality>>

\* locals of pdf_to_images at entry (lines 103-104), the integers not yet
\* assigned held as 0; ret is its return value
PdfLocals ==
    [images |-> <<>>, captions |-> <<>>, zoom_factor |-> 0,
     pages_per_image |-> 0, total_pages |-> 0, num_combined_images |-> 0,
     group_idx |-> 0, start_page |-> 0, end_page |-> 0, page_num |-> 0,
     page_images |-> <<>>, combined_image |-> None, ret |-> None]

file == uploaded_files[file_idx]

(***************************************************************************)
(* main(), lines 272-292: the batch loop.                                  *)
(***************************************************************************)
\* lines 272-274
MainUpload ==
    /\ pc = "main_upload"
    /\ IF uploaded_files # <<>>
       THEN /\ processed_images' = <<>>
            /\ image_captions' = <<>>
            /\ file_idx' = 1
            /\ pc' = "main_loop"
       ELSE /\ pc' = "main_done"
            /\ UNCHANGED <<processed_images, image_captions, file_idx>>
    /\ UNCHANGED <<others, inputs, errors, documents, pdf, img>>

\* lines 276-280 and 285: next file, dispatched on its type
MainLoop ==
    /\ pc = "main_loop"
    /\ IF file_idx > Len(uploaded_files)
       THEN /\ pc' = "main_done"
            /\ pdf' = pdf
       ELSE IF file.type = "application/pdf"
       THEN /\ pc' = "pdf_open"
            /\ pdf' = PdfLocals
       ELSE /\ pc' = "img_open"
            /\ pdf' = pdf
    /\ UNCHANGED <<others, inputs, file_idx, processed_images, image_captions,
                   errors, documents, img>>

\* lines 280-282: the returned sequences extend the session lists
MainExtend ==
    /\ pc = "main_extend"
    /\ processed_images' = processed_images \o pdf.ret.images
    /\ image_captions' = image_captions \o pdf.ret.captions
    /\ pdf' = PdfLocals
    /\ file_idx' = file_idx + 1
    /\ pc' = "main_loop"
    /\ UNCHANGED <<others, inputs, errors, documents, img>>

\* mutant: the payload appended without its caption
MainAppend_payload_only ==
    /\ pc = "main_append"
    /\ processed_images' = Append(processed_images, img)
    /\ image_captions' = image_captions
    /\ img' = None
    /\ file_idx' = file_idx + 1
    /\ pc' = "main_loop"
    /\ UNCHANGED <<others, inputs, errors, documents, pdf>>

\* lines 285-287: the processed image and its file name are appended
MainAppend ==
    /\ pc = "main_append"
    /\ processed_images' = Append(processed_images, img)
    /\ image_captions' = Append(image_captions, file.name)
    /\ img' = None
    /\ file_idx' = file_idx + 1
    /\ pc' = "main_loop"
    /\ UNCHANGED <<others, inputs, errors, documents, pdf>>

\* lines 288-290: an exception raised while processing the file
MainExcept ==
    /\ pc = "main_except"
    /\ errors' = Append(errors, [by |-> "main", file |-> file.name])
    /\ img' = None
    /\ file_idx' = file_idx + 1
    /\ pc' = "main_loop"
    /\ UNCHANGED <<others, inputs, processed_images, image_captions, documents, pdf>>

(***************************************************************************)
(* process_image(image_file, quality), lines 66-99.                        *)
(***************************************************************************)
\* line 69: Image.open raises on bytes that are no image
ImgOpen ==
    /\ pc = "img_open"
    /\ IF file.openable
       THEN /\ img' = image_open(file)
            /\ pc' = "img_normalize"
       ELSE /\ img' = img
            /\ pc' = "main_except"
    /\ UNCHANGED <<others, inputs, file_idx, processed_images, image_captions,
                   errors, documents, pdf>>

\* mutant: every quality level goes through the resize
ImgNormalize_always_resize ==
    /\ pc = "img_normalize"
    /\ img' = normalize_color(img)
    /\ pc' = "img_resize"
    /\ UNCHANGED <<others, inputs, file_idx, processed_images, image_captions,
                   errors, documents, pdf>>

\* lines 71-81
ImgNormalize ==
    /\ pc = "img_normalize"
    /\ img' = normalize_color(img)
    /\ pc' = IF quality = "Very High" THEN "img_encode_direct" ELSE "img_resize"
    /\ UNCHANGED <<others, inputs, file_idx, processed_images, image_captions,
                   errors, documents, pdf>>

\* lines 82-85: direct encode; the encoder raises on an image it refuses
ImgEncodeDirect ==
    /\ pc = "img_encode_direct"
    /\ LET img_byte_arr == save_jpeg(img, <<>>, file.name)
       IN IF img_byte_arr = None
          THEN /\ pc' = "main_except"
               /\ img' = img
          ELSE /\ pc' = "main_append"
               /\ img' = img_byte_arr
    /\ UNCHANGED <<others, inputs, file_idx, processed_images, image_captions,
                   errors, documents, pdf>>

\* lines 88-93: resize raises when a new dimension is below one pixel
ImgResize ==
    /\ pc = "img_resize"
    /\ LET zoom == get_zoom_factor(quality)
       IN IF zoom = KeyError
          THEN /\ pc' = "main_except"
               /\ img' = img
          ELSE LET new_width == scaled_dim(img.width, zoom)
                   new_height == scaled_dim(img.height, zoom)
               IN IF new_width < 1 \/ new_height < 1
                  THEN /\ pc' = "main_except"
                       /\ img' = img
                  ELSE /\ pc' = "img_encode_resized"
                       /\ img' = [img EXCEPT !.width = new_width,
                                             !.height = new_height]
    /\ UNCHANGED <<others, inputs, file_idx, processed_images, image_captions,
                   errors, documents, pdf>>

\* lines 96-99
ImgEncodeResized ==
    /\ pc = "img_encode_resized"
    /\ LET img_byte_arr == save_jpeg(img, <<>>, file.name)
       IN IF img_byte_arr = None
          THEN /\ pc' = "main_except"
               /\ img' = img
          ELSE /\ pc' = "main_append"
               /\ img' = img_byte_arr
    /\ UNCHANGED <<others, inputs, file_idx, processed_images, image_captions,
                   errors, documents, pdf>>

(***************************************************************************)
(* pdf_to_images(pdf_file, quality, pdf_quality), lines 101-153.           *)
(***************************************************************************)
\* lines 106-109: fitz.open raises on bytes that are no PDF
PdfOpen ==
    /\ pc = "pdf_open"
    /\ IF file.openable
       THEN /\ documents' = [documents EXCEPT ![file_idx] = "open"]
            /\ pc' = "pdf_lookup"
       ELSE /\ documents' = documents
            /\ pc' = "pdf_except"
    /\ UNCHANGED <<others, inputs, file_idx, processed_images, image_captions,
                   errors, pdf, img>>

\* mutant: one selector drives both policies
PdfLookup_single_selector ==
    /\ pc = "pdf_lookup"
    /\ LET zoom_factor == get_zoom_factor(quality)
           pages_per_image == get_pages_per_image(quality)
       IN IF zoom_factor = KeyError \/ pages_per_image = KeyError
          THEN /\ pc' = "pdf_except"
               /\ pdf' = pdf
          ELSE /\ pc' = "pdf_group"
               /\ pdf' = [pdf EXCEPT
                     !.zoom_factor = zoom_factor,
                     !.pages_per_image = pages_per_image,
                     !.total_pages = file.page_count,
                     !.num_combined_images =
                         CeilDiv(file.page_count, pages_per_image),
                     !.group_idx = 0]
    /\ UNCHANGED <<others, inputs, file_idx, processed_images, image_captions,
                   errors, documents, img>>

\* lines 110-115: policy lookups, page count, number of combined images
PdfLookup ==
    /\ pc = "pdf_lookup"
    /\ LET zoom_factor == get_zoom_factor(quality)
           pages_per_image == get_pages_per_image(pdf_quality)
       IN IF zoom_factor = KeyError \/ pages_per_image = KeyError
          THEN /\ pc' = "pdf_except"
               /\ pdf' = pdf
          ELSE /\ pc' = "pdf_group"
               /\ pdf' = [pdf EXCEPT
                     !.zoom_factor = zoom_factor,
                     !.pages_per_image = pages_per_image,
                     !.total_pages = file.page_count,
                     !.num_combined_images =
                         CeilDiv(file.page_count, pages_per_image),
                     !.group_idx = 0]
    /\ UNCHANGED <<others, inputs, file_idx, processed_images, image_captions,
                   errors, documents, img>>

\* mutant: the end of the group not clamped to the page count
PdfGroup_unclamped ==
    /\ pc = "pdf_group"
    /\ pdf.group_idx < pdf.num_combined_images
    /\ LET start_page == pdf.group_idx * pdf.pages_per_image
           end_page == start_page + pdf.pages_per_image
       IN pdf' = [pdf EXCEPT !.start_page = start_page,
                             !.end_page = end_page,
                             !.page_images = <<>>,
                             !.page_num = start_page]
    /\ pc' = "pdf_page"
    /\ UNCHANGED <<others, inputs, file_idx, processed_images, image_captions,
                   errors, documents, img>>

\* lines 118-121: bounds of the next group
PdfGroup ==
    /\ pc = "pdf_group"
    /\ pdf.group_idx < pdf.num_combined_images
    /\ LET start_page == pdf.group_idx * pdf.pages_per_image
           end_page == Min(start_page + pdf.pages_per_image, pdf.total_pages)
       IN pdf' = [pdf EXCEPT !.start_page = start_page,
                             !.end_page = end_page,
                             !.page_images = <<>>,
                             !.page_num = start_page]
    /\ pc' = "pdf_page"
    /\ UNCHANGED <<others, inputs, file_idx, processed_images, image_captions,
                   errors, documents, img>>

\* lines 124-129: one page rasterized; get_pixmap raises on a bad page
PdfPage ==
    /\ pc = "pdf_page"
    /\ pdf.page_num < pdf.end_page
    /\ IF pdf.page_num + 1 = file.bad_page
       THEN /\ pc' = "pdf_except"
            /\ pdf' = pdf
       ELSE /\ pc' = "pdf_page"
            /\ pdf' = [pdf EXCEPT
                  !.page_images = Append(@,
                      get_pixmap(file, pdf.page_num, pdf.zoom_factor)),
                  !.page_num = @ + 1]
    /\ UNCHANGED <<others, inputs, file_idx, processed_images, image_captions,
                   errors, documents, img>>

\* mutant: the composite built inside the page loop, after the first page
PdfCombine_early ==
    /\ pc = "pdf_page"
    /\ pdf.page_num > pdf.start_page
    /\ pdf' = [pdf EXCEPT
          !.combined_image = combine_images_vertically(pdf.page_images)]
    /\ pc' = "pdf_encode"
    /\ UNCHANGED <<others, inputs, file_idx, processed_images, image_captions,
                   errors, documents, img>>

\* line 132
PdfCombine ==
    /\ pc = "pdf_page"
    /\ pdf.page_num >= pdf.end_page
    /\ pdf' = [pdf EXCEPT
          !.combined_image = combine_images_vertically(pdf.page_images)]
    /\ pc' = "pdf_encode"
    /\ UNCHANGED <<others, inputs, file_idx, processed_images, image_captions,
                   errors, documents, img>>

\* lines 135-145: encode, append payload and caption; None has no save
PdfEncode ==
    /\ pc = "pdf_encode"
    /\ LET img_byte_arr ==
               IF pdf.combined_image = None THEN None
               ELSE save_jpeg(pdf.combined_image,
                              [k \in 1..Len(pdf.page_images) |->
                                   pdf.page_images[k].page],
                              file.name)
       IN IF img_byte_arr = None
          THEN /\ pc' = "pdf_except"
               /\ pdf' = pdf
          ELSE /\ pc' = "pdf_group"
               /\ pdf' = [pdf EXCEPT
                     !.images = Append(@, img_byte_arr),
                     !.captions = Append(@,
                         caption_of(file.name, pdf.start_page, pdf.end_page)),
                     !.group_idx = @ + 1]
    /\ UNCHANGED <<others, inputs, file_idx, processed_images, image_captions,
                   errors, documents, img>>

\* lines 147 and 153: after the last group the handle is closed and the
\* sequences are returned
PdfClose ==
    /\ pc = "pdf_group"
    /\ pdf.group_idx >= pdf.num_combined_images
    /\ documents' = [documents EXCEPT ![file_idx] = "closed"]
    /\ pdf' = [pdf EXCEPT !.ret = [images |-> pdf.images,
                                   captions |-> pdf.captions]]
    /\ pc' = "main_extend"
    /\ UNCHANGED <<others, inputs, file_idx, processed_images, image_captions,
                   errors, img>>

\* mutant: the handler returns what was built before the failure
PdfExcept_partial ==
    /\ pc = "pdf_except"
    /\ errors' = Append(errors, [by |-> "pdf_to_images", file |-> file.name])
    /\ pdf' = [pdf EXCEPT !.ret = [images |-> pdf.images,
                                   captions |-> pdf.captions]]
    /\ pc' = "main_extend"
    /\ UNCHANGED <<others, inputs, file_idx, processed_images, image_captions,
                   documents, img>>

\* mutant: the handler ends the whole script run after reporting
PdfExcept_stop ==
    /\ pc = "pdf_except"
    /\ errors' = Append(errors, [by |-> "pdf_to_images", file |-> file.name])
    /\ pdf' = [pdf EXCEPT !.ret = [images |-> <<>>, captions |-> <<>>]]
    /\ pc' = "main_done"
    /\ UNCHANGED <<others, inputs, file_idx, processed_images, image_captions,
                   documents, img>>

\* lines 149-151: the handler reports and returns two empty lists
PdfExcept ==
    /\ pc = "pdf_except"
    /\ errors' = Append(errors, [by |-> "pdf_to_images", file |-> file.name])
    /\ pdf' = [pdf EXCEPT !.ret = [images |-> <<>>, captions |-> <<>>]]
    /\ pc' = "main_extend"
    /\ UNCHANGED <<others, inputs, file_idx, processed_images, image_captions,
                   documents, img>>

(***************************************************************************)
(* One script run over one uploaded file (Spec) or over a batch of two      *)
(* small files (SpecBatch).                                                *)
(***************************************************************************)
\* the composite builder called on its own is idle during a script run
CombineIdle ==
    /\ combine_input = <<>>
    /\ combine_pc = "idle"
    /\ combined = None

\* locals of convert_pdf_to_images before the call
LegacyLocals ==
    [pdf_images |-> <<>>, pages_per_image |-> 0, total_pages |-> 0,
     processed_images |-> <<>>, i |-> 0]

\* the legacy converter is idle during a script run of anthropic_ocr.py
LegacyIdle ==
    /\ legacy_file = None
    /\ quality_level = 0
    /\ legacy_pc = "idle"
    /\ legacy = LegacyLocals

\* no lookup is made on its own
PolicyLocals ==
    [table |-> "none", lo |-> 1, hi |-> 1,
     out_lo |-> [num |-> 0, den |-> 1], out_hi |-> [num |-> 0, den |-> 1],
     pc |-> "idle"]

PolicyIdle == policy = PolicyLocals

\* convert_pdf_to_images of img_pdf_resize.py before a call, and the session
\* state that initialize_session_state of that file sets up (lines 25-40)
ResizeLocals ==
    [pdf_file |-> None, quality_level |-> 0, document |-> "unopened",
     errors |-> <<>>, ret |-> None, pc |-> "idle"]

SessionDefaults ==
    [messages |-> <<>>, processed_pdfs |-> <<>>,
     selected_images |-> [name \in {} |-> TRUE]]

ResizeIdle ==
    /\ resize = ResizeLocals
    /\ session = SessionDefaults

\* img_pdf_v2.py before its first script run: the session state that its
\* initialize_session_state sets up (lines 164-173), nothing uploaded, and
\* the locals of convert_pdf_to_images before a call
V2ConvLocals ==
    [pdf_file |-> None, document |-> "unopened", total_pages |-> 0,
     pages_per_image |-> 0, processed_images |-> <<>>, i |-> 0,
     skipped |-> <<>>, ret |-> None]

V2Locals ==
    [pc |-> "idle", runs |-> 0, uploaded_images |-> <<>>,
     uploaded_pdfs |-> <<>>, quality_level |-> 3, processed_pdfs |-> <<>>,
     uploaded_files |-> None, all_files |-> <<>>, pdf_idx |-> 0,
     shown |-> <<>>, conv |-> V2ConvLocals]

\* the chat before its first script run (initialize_session_state, lines
\* 224-233): no prompt submitted, no request sent
ChatLocals ==
    [app |-> "anthropic_ocr", api_key |-> TRUE, event |-> "none",
     pc |-> "idle", prompt |-> "", request |-> <<>>, response |-> "",
     runs |-> 0]

AppsIdle ==
    /\ v2 = V2Locals
    /\ messages = <<>>
    /\ chat = ChatLocals

InitRun ==
    /\ CombineIdle
    /\ LegacyIdle
    /\ PolicyIdle
    /\ ResizeIdle
    /\ AppsIdle
    /\ quality \in QualityLevels
    /\ pdf_quality \in QualityLevels
    /\ pc = "main_upload"
    /\ file_idx = 0
    /\ processed_images = <<>>
    /\ image_captions = <<>>
    /\ errors = <<>>
    /\ documents = [i \in 1..Len(uploaded_files) |-> "unopened"]
    /\ pdf = PdfLocals
    /\ img = None

\* widths of the single image: one that scales below a pixel, one whose
\* product with 0.7 is the integer 63 and falls short in double arithmetic
ImageWidths == {3, 40, 90}

SingleFiles ==
    {f \in PdfFiles(FileName(1, "pdf"), MaxPages, PageLayouts) : WellFormed(f)}
    \cup
    {f \in ImageFiles(FileName(1, "png"), ImageModes, ImageWidths, {4, 30}) :
        WellFormedImage(f)}

Init ==
    /\ uploaded_files \in {<<>>} \cup {<<f>> : f \in SingleFiles}
    /\ InitRun

Next ==
    \/ MainUpload
    \/ MainLoop
    \/ MainExtend
    \/ MainAppend
    \/ MainExcept
    \/ ImgOpen
    \/ ImgNormalize
    \/ ImgEncodeDirect
    \/ ImgResize
    \/ ImgEncodeResized
    \/ PdfOpen
    \/ PdfLookup
    \/ PdfGroup
    \/ PdfPage
    \/ PdfCombine
    \/ PdfEncode
    \/ PdfClose
    \/ PdfExcept

Spec == Init /\ [][Next]_vars

TypeOK ==
    /\ pc \in {"main_upload", "main_loop", "main_extend", "main_append",
               "main_except", "main_done", "img_open", "img_normalize",
               "img_encode_direct", "img_resize", "img_encode_resized",
               "pdf_open", "pdf_lookup", "pdf_group", "pdf_page",
               "pdf_encode", "pdf_except"}
    /\ Len(processed_images) = Len(image_captions)

\* the files a batch can hold at position i
BatchFiles(i) ==
    {f \in PdfFiles(FileName(i, "pdf"), MaxBatchPages, {"uniform"}) :
        WellFormed(f)}
    \cup
    {f \in ImageFiles(FileName(i, "png"), {"RGB"}, {3, 40}, {30}) :
        WellFormedImage(f) /\ f.pixel = 0}

InitBatch ==
    /\ uploaded_files \in {<<f, g>> : f \in BatchFiles(1), g \in BatchFiles(2)}
    /\ InitRun

SpecBatch == InitBatch /\ [][Next]_vars

(***************************************************************************)
(* SpecCombine: combine_images_vertically called on every list of at most  *)
(* MaxImgs images whose sizes are drawn from a small set.                  *)
(***************************************************************************)
CombineWidths == {1, 4, 7}
CombineHeights == {1, 2, 5}

CombineInputs ==
    UNION {[1..n -> CombineWidths \X CombineHeights] : n \in 0..MaxImgs}

\* a script run that never starts
RunIdle ==
    /\ uploaded_files = <<>>
    /\ quality = "High"
    /\ pdf_quality = "High"
    /\ pc = "idle"
    /\ file_idx = 0
    /\ processed_images = <<>>
    /\ image_captions = <<>>
    /\ errors = <<>>
    /\ documents = <<>>
    /\ pdf = PdfLocals
    /\ img = None

InitCombine ==
    /\ RunIdle
    /\ AppsIdle
    /\ LegacyIdle
    /\ PolicyIdle
    /\ ResizeIdle
    /\ \E sizes \in CombineInputs :
          combine_input = [k \in 1..Len(sizes) |->
              [mode |-> "RGB", width |-> sizes[k][1], height |-> sizes[k][2],
               page |-> k]]
    /\ combine_pc = "call"
    /\ combined = None

CombineCall ==
    /\ combine_pc = "call"
    /\ combined' = combine_images_vertically(combine_input)
    /\ combine_pc' = "returned"
    /\ UNCHANGED <<combine_input, run, aside, legacy_file, quality_level,
                   legacy_pc, legacy>>

NextCombine == CombineCall

SpecCombine == InitCombine /\ [][NextCombine]_vars

\* SpecPipeline: the composite builder on its own beside the script run that
\* calls it from pdf_to_images
InitPipeline ==
    \/ Init
    \/ InitCombine

NextPipeline ==
    \/ Next
    \/ NextCombine

SpecPipeline == InitPipeline /\ [][NextPipeline]_vars

(***************************************************************************)
(* SpecLegacy: convert_pdf_to_images(pdf_file, quality_level) of           *)
(* testing/st_img_4o_pdf.py, lines 21-81, called on one document.          *)
(***************************************************************************)
\* the names the module binds by its imports (lines 1-9)
st_img_4o_pdf_names ==
    {"st", "base64", "requests", "os", "load_dotenv", "pdf2image",
     "tempfile", "Path", "math"}

\* pages_map of lines 23-29
pages_map == (5 :> 1) @@ (4 :> 2) @@ (3 :> 4) @@ (2 :> 6) @@ (1 :> 8)

\* pages_map.get(quality_level, 1)
legacy_get_pages_per_image(level) ==
    IF level \in DOMAIN pages_map THEN pages_map[level] ELSE 1

\* pdf2image.convert_from_path(pdf_path, dpi=200): one image per page, a page
\* of w points being w * 200 / 72 pixels wide
convert_from_path(f) ==
    [k \in 1..f.page_count |->
        [mode |-> "RGB",
         width |-> (page_rect(f, k - 1).width * 200) \div 72,
         height |-> (page_rect(f, k - 1).height * 200) \div 72,
         page |-> k - 1]]

\* pdf_file.name.rsplit('.', 1)[0] of the file at position i of the uploader
FileStem(i) == "file" \o ToString(i)

\* lines 35-50: the document is converted as a whole; a malformed document or
\* an unrenderable page makes convert_from_path raise
LegacyConvert ==
    /\ legacy_pc = "call"
    /\ IF legacy_file.openable /\ legacy_file.bad_page = 0
       THEN /\ legacy' = [legacy EXCEPT
                  !.pdf_images = convert_from_path(legacy_file),
                  !.pages_per_image = legacy_get_pages_per_image(quality_level),
                  !.total_pages = legacy_file.page_count,
                  !.processed_images = <<>>,
                  !.i = 0]
            /\ legacy_pc' = "loop"
       ELSE /\ legacy' = legacy
            /\ legacy_pc' = "raised"
    /\ UNCHANGED <<run, aside, combine_input, combine_pc, combined, legacy_file,
                   quality_level>>

\* lines 53-79, a full set of pages: the canvas is built with Image.new, a
\* name the module does not bind, so that the statement raises NameError
LegacyFullGroup ==
    /\ legacy_pc = "loop"
    /\ legacy.i < legacy.total_pages
    /\ LET end_idx == Min(legacy.i + legacy.pages_per_image, legacy.total_pages)
           first == legacy.pdf_images[legacy.i + 1]
           width == first.width
           height == first.height * legacy.pages_per_image
       IN /\ end_idx - legacy.i = legacy.pages_per_image
          /\ IF {"Image", "io"} \subseteq st_img_4o_pdf_names
             THEN /\ legacy' = [legacy EXCEPT
                        !.processed_images = Append(@,
                            [name |-> FileStem(1) \o "_pages_"
                                      \o ToString(legacy.i + 1) \o "-"
                                      \o ToString(end_idx) \o ".jpg",
                             width |-> width, height |-> height,
                             pages |-> PagesFromTo(legacy.i, end_idx)]),
                        !.i = @ + legacy.pages_per_image]
                  /\ legacy_pc' = "loop"
             ELSE /\ legacy' = legacy
                  /\ legacy_pc' = "raised"
    /\ UNCHANGED <<run, aside, combine_input, combine_pc, combined, legacy_file,
                   quality_level>>

\* lines 53-55, fewer pages than a full set: nothing is done for them
LegacySkipShort ==
    /\ legacy_pc = "loop"
    /\ legacy.i < legacy.total_pages
    /\ LET end_idx == Min(legacy.i + legacy.pages_per_image, legacy.total_pages)
       IN end_idx - legacy.i # legacy.pages_per_image
    /\ legacy' = [legacy EXCEPT !.i = @ + legacy.pages_per_image]
    /\ legacy_pc' = "loop"
    /\ UNCHANGED <<run, aside, combine_input, combine_pc, combined, legacy_file,
                   quality_level>>

\* line 81
LegacyReturn ==
    /\ legacy_pc = "loop"
    /\ legacy.i >= legacy.total_pages
    /\ legacy_pc' = "returned"
    /\ UNCHANGED <<run, aside, combine_input, combine_pc, combined, legacy_file,
                   quality_level, legacy>>

InitLegacy ==
    /\ RunIdle
    /\ AppsIdle
    /\ CombineIdle
    /\ PolicyIdle
    /\ ResizeIdle
    /\ legacy_file \in
           {f \in PdfFiles(FileName(1, "pdf"), MaxPages, PageLayouts) :
               WellFormed(f)}
    /\ quality_level \in 1..5
    /\ legacy_pc = "call"
    /\ legacy = LegacyLocals

NextLegacy ==
    \/ LegacyConvert
    \/ LegacyFullGroup
    \/ LegacySkipShort
    \/ LegacyReturn

SpecLegacy == InitLegacy /\ [][NextLegacy]_vars

(***************************************************************************)
(* SpecPolicy: the quality policy tables looked up at two levels.  The     *)
(* tables are get_zoom_factor and get_pages_per_image of anthropic_ocr.py, *)
(* get_zoom_factor of new_test/fix_rgba_filedata_error.py and the          *)
(* integer-keyed get_pages_per_image of testing/img_pdf_v2.py (the same    *)
(* text as in testing/st_img_4o_pdf.py).  A value is an exact fraction.    *)
(***************************************************************************)
\* quality_map of fix_rgba_filedata_error.py, lines 19-25
fix_rgba_quality_map ==
    [q \in QualityLevels |->
        CASE q = "Very High" -> [num |-> 1, den |-> 1]
          [] q = "High"      -> [num |-> 1, den |-> 2]
          [] q = "Medium"    -> [num |-> 33, den |-> 100]
          [] q = "Low"       -> [num |-> 1, den |-> 4]
          [] q = "Very Low"  -> [num |-> 1, den |-> 6]]

fix_rgba_get_zoom_factor(q) ==
    IF q \in DOMAIN fix_rgba_quality_map THEN fix_rgba_quality_map[q]
    ELSE [num |-> KeyError, den |-> 1]

PolicyTables ==
    {"get_zoom_factor", "fix_rgba.get_zoom_factor", "get_pages_per_image",
     "img_pdf_v2.get_pages_per_image"}

ZoomTables == {"get_zoom_factor", "fix_rgba.get_zoom_factor"}

\* the argument a lookup of level i is made with.  Levels 1..5 are the
\* slider positions, 1 the lowest quality; levels 0 and 6 lie outside every
\* table: "Ultra" for the string-keyed tables, the integer itself for the
\* integer-keyed one
level_key(i) == IF i \in DOMAIN QualityOptions THEN QualityOptions[i] ELSE "Ultra"

\* the lookup of level i in a table: the string-keyed tables take the slider
\* option, the integer-keyed one the slider value
policy_lookup(table, i) ==
    CASE table = "get_zoom_factor" ->
             [num |-> get_zoom_factor(level_key(i)), den |-> ZoomDen]
      [] table = "fix_rgba.get_zoom_factor" ->
             fix_rgba_get_zoom_factor(level_key(i))
      [] table = "get_pages_per_image" ->
             [num |-> get_pages_per_image(level_key(i)), den |-> 1]
      [] table = "img_pdf_v2.get_pages_per_image" ->
             [num |-> legacy_get_pages_per_image(i), den |-> 1]

\* the levels a lookup is made at
PolicyLevels == 0..6

InitPolicy ==
    /\ RunIdle
    /\ AppsIdle
    /\ CombineIdle
    /\ LegacyIdle
    /\ ResizeIdle
    /\ \E t \in PolicyTables, i \in PolicyLevels, j \in PolicyLevels :
          policy = [PolicyLocals EXCEPT !.table = t, !.lo = i, !.hi = j,
                                        !.pc = "call"]

PolicyLookup ==
    /\ policy.pc = "call"
    /\ policy' = [policy EXCEPT
          !.out_lo = policy_lookup(policy.table, policy.lo),
          !.out_hi = policy_lookup(policy.table, policy.hi),
          !.pc = "returned"]
    /\ UNCHANGED <<run, combine_input, combine_pc, combined, legacy_file,
                   quality_level, legacy_pc, legacy, resize, session, apps>>

NextPolicy == PolicyLookup

SpecPolicy == InitPolicy /\ [][NextPolicy]_vars

(***************************************************************************)
(* convert_pdf_to_images(pdf_file, quality_level) of                       *)
(* testing/img_pdf_resize.py, lines 61-119, called by its main() on one    *)
(* document (lines 215-223).                                               *)
(***************************************************************************)
\* mutant: the module also binds the helper that line 66 calls
img_pdf_resize_names_with_helper ==
    {"st", "base64", "requests", "os", "load_dotenv", "fitz", "tempfile",
     "Path", "math", "Image", "io", "datetime", "Dict", "List", "api_key",
     "OUTPUT_DIR", "initialize_session_state", "resize_image",
     "process_image_quality", "convert_pdf_to_images",
     "display_image_selection", "get_selected_images", "main",
     "get_pages_per_image"}

\* the names the module binds: its imports (lines 1-13), its two globals and
\* its function definitions
img_pdf_resize_names ==
    {"st", "base64", "requests", "os", "load_dotenv", "fitz", "tempfile",
     "Path", "math", "Image", "io", "datetime", "Dict", "List", "api_key",
     "OUTPUT_DIR", "initialize_session_state", "resize_image",
     "process_image_quality", "convert_pdf_to_images",
     "display_image_selection", "get_selected_images", "main"}

\* line 96: name of the image of the k-th page group
resize_filename(k, pages_per_image, total_pages) ==
    FileStem(1) \o "_pages_" \o ToString((k - 1) * pages_per_image + 1)
        \o "-" \o ToString(Min(k * pages_per_image, total_pages)) \o ".jpg"

\* lines 69-108 for the first page groups of a document: the entries
\* appended to processed_images, and session_state.selected_images after the
\* writes of lines 107-108
resize_processed(f, pages_per_image, groups) ==
    [k \in 1..groups |->
        [name |-> resize_filename(k, pages_per_image, f.page_count),
         selected |-> TRUE]]

resize_selected(selected_images, f, pages_per_image, groups) ==
    selected_images @@
        [name \in {resize_filename(k, pages_per_image, f.page_count) :
                      k \in 1..groups} |-> TRUE]

\* line 64: fitz.open raises on bytes that are no PDF
ResizeOpen ==
    /\ resize.pc = "call"
    /\ IF resize.pdf_file.openable
       THEN resize' = [resize EXCEPT !.document = "open", !.pc = "lookup"]
       ELSE resize' = [resize EXCEPT !.pc = "except"]
    /\ UNCHANGED <<run, combine_input, combine_pc, combined, legacy_file,
                   quality_level, legacy_pc, legacy, policy, session, apps>>

\* lines 65-115.  Line 66 calls get_pages_per_image, a name the module does
\* not bind, and raises NameError.  Where the name is bound, the group loop
\* runs until a page fails to render, writing selected_images for every group
\* it completes, and line 113 then calls save_images_locally, which raises
\* NameError in its turn unless no image was made.
ResizeLookup ==
    /\ resize.pc = "lookup"
    /\ IF "get_pages_per_image" \in img_pdf_resize_names
       THEN LET f == resize.pdf_file
                pages_per_image ==
                    legacy_get_pages_per_image(resize.quality_level)
                all == CeilDiv(f.page_count, pages_per_image)
                done == IF f.bad_page = 0 THEN all
                        ELSE (f.bad_page - 1) \div pages_per_image
            IN /\ session' = [session EXCEPT !.selected_images =
                       resize_selected(@, f, pages_per_image, done)]
               /\ IF f.bad_page > 0
                  THEN resize' = [resize EXCEPT !.pc = "except"]
                  ELSE IF all > 0
                          /\ "save_images_locally" \notin img_pdf_resize_names
                  THEN resize' = [resize EXCEPT !.document = "closed",
                                                !.pc = "except"]
                  ELSE resize' = [resize EXCEPT
                           !.document = "closed",
                           !.ret = resize_processed(f, pages_per_image, all),
                           !.pc = "returned"]
       ELSE /\ resize' = [resize EXCEPT !.pc = "except"]
            /\ session' = session
    /\ UNCHANGED <<run, combine_input, combine_pc, combined, legacy_file,
                   quality_level, legacy_pc, legacy, policy, apps>>

\* lines 117-119: the handler reports and returns an empty list
ResizeExcept ==
    /\ resize.pc = "except"
    /\ resize' = [resize EXCEPT
          !.errors = Append(@, [by |-> "convert_pdf_to_images",
                                file |-> resize.pdf_file.name]),
          !.ret = <<>>,
          !.pc = "returned"]
    /\ UNCHANGED <<run, combine_input, combine_pc, combined, legacy_file,
                   quality_level, legacy_pc, legacy, policy, session, apps>>

\* main, line 222: the returned list extends session_state.processed_pdfs
ResizeMainExtend ==
    /\ resize.pc = "returned"
    /\ session' = [session EXCEPT !.processed_pdfs = @ \o resize.ret]
    /\ resize' = [resize EXCEPT !.pc = "main_done"]
    /\ UNCHANGED <<run, combine_input, combine_pc, combined, legacy_file,
                   quality_level, legacy_pc, legacy, policy, apps>>

\* session states a call can start from: an earlier chat message, an image
\* of an earlier conversion that the user deselected
ResizeSessions ==
    {[messages |-> m, processed_pdfs |-> d, selected_images |-> sel] :
        m \in {<<>>, <<[role |-> "user", content |-> "hello"]>>},
        d \in {<<>>, <<[name |-> "file1_pages_1-1.jpg", selected |-> TRUE]>>},
        sel \in {[name \in {} |-> TRUE],
                 [name \in {"file1_pages_1-1.jpg"} |-> FALSE]}}

InitResize ==
    /\ RunIdle
    /\ AppsIdle
    /\ CombineIdle
    /\ LegacyIdle
    /\ PolicyIdle
    /\ session \in ResizeSessions
    /\ \E f \in PdfFiles(FileName(1, "pdf"), MaxBatchPages, {"uniform"}),
          level \in 1..5 :
          /\ WellFormed(f)
          /\ resize = [ResizeLocals EXCEPT !.pdf_file = f,
                                           !.quality_level = level,
                                           !.pc = "call"]

NextResize ==
    \/ ResizeOpen
    \/ ResizeLookup
    \/ ResizeExcept
    \/ ResizeMainExtend

(***************************************************************************)
(* SpecConverters: the two PDF converters at work, pdf_to_images inside the *)
(* batch loop of anthropic_ocr.py and convert_pdf_to_images of             *)
(* img_pdf_resize.py.                                                      *)
(***************************************************************************)
InitConverters ==
    \/ InitBatch
    \/ InitResize

NextConverters ==
    \/ Next
    \/ NextResize

SpecConverters == InitConverters /\ [][NextConverters]_vars

(***************************************************************************)
(* SpecV2: testing/img_pdf_v2.py.  main() (lines 175-237) run and rerun on *)
(* an image uploader and a PDF uploader, with convert_pdf_to_images (lines *)
(* 34-94) called on every uploaded PDF.                                    *)
(***************************************************************************)
\* script runs of one session
MaxRuns == 2

\* everything but v2
not_v2 == <<run, combine_input, combine_pc, combined, legacy_file,
            quality_level, legacy_pc, legacy, policy, resize, session,
            messages, chat>>

\* mutant: every short group skipped, the last one included
skip_guard_any_short(current_pages, pages_per_image, i, total_pages) ==
    current_pages < pages_per_image

\* line 49: the test that skips a group
skip_guard(current_pages, pages_per_image, i, total_pages) ==
    current_pages < pages_per_image /\ i + pages_per_image < total_pages

\* lines 54-73: the canvas is sized from the first page of the group at zoom
\* 2, and page j of the group is pasted at (0, j * height of the first page)
v2_combined_image(f, i, end_idx) ==
    LET rect == page_rect(f, i)
        zoom == 2
        current_pages == end_idx - i
    IN [mode |-> "RGB",
        width |-> rect.width * zoom,
        height |-> rect.height * zoom * current_pages,
        background |-> "white",
        pastes |-> [k \in 1..current_pages |->
            LET pix == get_pixmap(f, i + k - 1, zoom * ZoomDen)
            IN [x |-> 0, y |-> (k - 1) * (rect.height * zoom),
                width |-> pix.width, height |-> pix.height,
                page |-> i + k - 1]]]

\* line 76
v2_filename(f, i, end_idx) ==
    FileStem(1) \o "_pages_" \o ToString(i + 1) \o "-" \o ToString(end_idx)
        \o ".jpg"

\* lines 207-215: all_files starts with the uploaded images
V2MainStart ==
    /\ v2.pc = "main"
    /\ v2' = [v2 EXCEPT !.all_files = v2.uploaded_images,
                        !.pdf_idx = 1,
                        !.shown = <<>>,
                        !.pc = "pdf_loop"]
    /\ UNCHANGED not_v2

\* lines 215-221: the next uploaded PDF is handed to the converter
V2PdfLoop ==
    /\ v2.pc = "pdf_loop"
    /\ IF v2.pdf_idx <= Len(v2.uploaded_pdfs)
       THEN v2' = [v2 EXCEPT
                !.conv = [V2ConvLocals EXCEPT
                             !.pdf_file = v2.uploaded_pdfs[v2.pdf_idx]],
                !.pc = "open"]
       ELSE v2' = [v2 EXCEPT !.pc = "display"]
    /\ UNCHANGED not_v2

\* lines 38-41
V2Open ==
    /\ v2.pc = "open"
    /\ IF v2.conv.pdf_file.openable
       THEN v2' = [v2 EXCEPT
                !.conv.document = "open",
                !.conv.total_pages = v2.conv.pdf_file.page_count,
                !.conv.pages_per_image =
                    legacy_get_pages_per_image(v2.quality_level),
                !.conv.processed_images = <<>>,
                !.conv.i = 0,
                !.pc = "group"]
       ELSE v2' = [v2 EXCEPT !.pc = "except"]
    /\ UNCHANGED not_v2

\* lines 44-87: one turn of the loop over range(0, total_pages,
\* pages_per_image); a page that cannot be rendered raises in get_pixmap
V2Group ==
    /\ v2.pc = "group"
    /\ v2.conv.i < v2.conv.total_pages
    /\ LET c == v2.conv
           end_idx == Min(c.i + c.pages_per_image, c.total_pages)
           current_pages == end_idx - c.i
       IN IF skip_guard(current_pages, c.pages_per_image, c.i, c.total_pages)
          THEN v2' = [v2 EXCEPT
                   !.conv.skipped = @ \o PagesFromTo(c.i, end_idx),
                   !.conv.i = @ + c.pages_per_image]
          ELSE IF c.pdf_file.bad_page \in (c.i + 1)..end_idx
          THEN v2' = [v2 EXCEPT !.pc = "except"]
          ELSE v2' = [v2 EXCEPT
                   !.conv.processed_images = Append(@,
                       [name |-> v2_filename(c.pdf_file, c.i, end_idx),
                        data |-> v2_combined_image(c.pdf_file, c.i, end_idx),
                        pages |-> PagesFromTo(c.i, end_idx)]),
                   !.conv.i = @ + c.pages_per_image]
    /\ UNCHANGED not_v2

\* lines 89-90
V2Close ==
    /\ v2.pc = "group"
    /\ v2.conv.i >= v2.conv.total_pages
    /\ v2' = [v2 EXCEPT !.conv.document = "closed",
                        !.conv.ret = v2.conv.processed_images,
                        !.pc = "returned"]
    /\ UNCHANGED not_v2

\* lines 92-94
V2Except ==
    /\ v2.pc = "except"
    /\ v2' = [v2 EXCEPT !.conv.ret = <<>>, !.pc = "returned"]
    /\ UNCHANGED not_v2

\* mutant: the session list replaced by the images of this conversion
V2MainExtend_replace ==
    /\ v2.pc = "returned"
    /\ v2' = [v2 EXCEPT
          !.processed_pdfs = v2.conv.ret,
          !.all_files = @ \o [k \in 1..Len(v2.conv.ret) |->
                                 [has_name |-> FALSE,
                                  name |-> v2.conv.ret[k].name]],
          !.pdf_idx = @ + 1,
          !.pc = "pdf_loop"]
    /\ UNCHANGED not_v2

\* lines 222-223: the session list and all_files are extended.  An entry of
\* all_files is an uploaded image, which has a name attribute, or the BytesIO
\* of a converted group, which has none; the model keeps the name of the
\* group with the BytesIO to tell which image it is.
V2MainExtend ==
    /\ v2.pc = "returned"
    /\ v2' = [v2 EXCEPT
          !.processed_pdfs = @ \o v2.conv.ret,
          !.all_files = @ \o [k \in 1..Len(v2.conv.ret) |->
                                 [has_name |-> FALSE,
                                  name |-> v2.conv.ret[k].name]],
          !.pdf_idx = @ + 1,
          !.pc = "pdf_loop"]
    /\ UNCHANGED not_v2

\* the caption that line 233-236 computes for position idx (0-based) of
\* all_files, None where processed_pdfs[idx] raises IndexError
v2_caption(all_files, processed_pdfs, idx) ==
    IF all_files[idx + 1].has_name THEN [caption |-> all_files[idx + 1].name]
    ELSE IF idx + 1 <= Len(processed_pdfs)
    THEN [caption |-> processed_pdfs[idx + 1].name]
    ELSE None

\* lines 225-237: the grid of images with their captions; an IndexError
\* ends the script run
V2Display ==
    /\ v2.pc = "display"
    /\ LET n == Len(v2.all_files)
           caption(idx) == v2_caption(v2.all_files, v2.processed_pdfs, idx)
           failing == {idx \in 0..(n - 1) : caption(idx) = None}
           last == IF failing = {} THEN n
                   ELSE CHOOSE idx \in failing : \A o \in failing : idx <= o
       IN v2' = [v2 EXCEPT
              !.uploaded_files = IF n > 0 THEN v2.all_files ELSE @,
              !.shown = [k \in 1..last |->
                            [file |-> v2.all_files[k],
                             caption |-> caption(k - 1).caption]],
              !.pc = IF failing = {} THEN "done" ELSE "raised"]
    /\ UNCHANGED not_v2

\* the user interacts with a widget and the script is run again: the PDF is
\* kept or removed, an image is kept, added or removed; the session state
\* stays
V2Rerun ==
    /\ v2.pc \in {"done", "raised"}
    /\ v2.runs < MaxRuns
    /\ \E pdfs \in {<<>>, v2.uploaded_pdfs},
          images \in {<<>>, <<[has_name |-> TRUE, name |-> FileName(2, "png")]>>} :
          v2' = [v2 EXCEPT !.uploaded_pdfs = pdfs,
                           !.uploaded_images = images,
                           !.all_files = <<>>,
                           !.shown = <<>>,
                           !.conv = V2ConvLocals,
                           !.runs = @ + 1,
                           !.pc = "main"]
    /\ UNCHANGED not_v2

InitV2 ==
    /\ RunIdle
    /\ CombineIdle
    /\ LegacyIdle
    /\ PolicyIdle
    /\ ResizeIdle
    /\ messages = <<>>
    /\ chat = ChatLocals
    /\ \E f \in PdfFiles(FileName(1, "pdf"), MaxPages, PageLayouts),
          images \in {<<>>, <<[has_name |-> TRUE, name |-> FileName(2, "png")]>>},
          level \in 1..5 :
          /\ WellFormed(f)
          /\ v2 = [V2Locals EXCEPT !.uploaded_pdfs = <<f>>,
                                   !.uploaded_images = images,
                                   !.quality_level = level,
                                   !.runs = 1,
                                   !.pc = "main"]

NextV2 ==
    \/ V2MainStart
    \/ V2PdfLoop
    \/ V2Open
    \/ V2Group
    \/ V2Close
    \/ V2Except
    \/ V2MainExtend
    \/ V2Display
    \/ V2Rerun

SpecV2 == InitV2 /\ [][NextV2]_vars

(***************************************************************************)
(* SpecSession: a session of anthropic_ocr.py.  Every interaction of the   *)
(* user with a widget runs main() again on the same session state: the     *)
(* batch loop (lines 272-290, the actions of Next) and then the chat part  *)
(* (lines 301-330).  The chat part of new_test/fix_rgba_filedata_error.py  *)
(* (lines 235-264) has the same text; chat.app tells whose analyze_images  *)
(* is called.                                                              *)
(***************************************************************************)
\* interactions of the user after the first script run
MaxEvents == 3

\* the applications whose chat is modelled
ChatApps == {"anthropic_ocr", "fix_rgba"}

\* what the file uploader can hold during a session: nothing, an image, the
\* image and a one-page PDF, or two files that cannot be decoded
SessionImage ==
    CHOOSE f \in ImageFiles(FileName(1, "png"), {"RGB"}, {40}, {30}) :
        f.openable /\ f.pixel = 0 /\ f.alpha = 255 /\ ~f.transparency

SessionPdf ==
    CHOOSE f \in PdfFiles(FileName(2, "pdf"), 1, {"uniform"}) :
        f.openable /\ f.page_count = 1 /\ f.bad_page = 0

\* files that cannot be decoded
BrokenImage ==
    CHOOSE f \in ImageFiles(FileName(1, "png"), {"RGB"}, {40}, {30}) :
        ~f.openable

BrokenPdf ==
    CHOOSE f \in PdfFiles(FileName(2, "pdf"), 1, {"uniform"}) : ~f.openable

SessionUploads ==
    {<<>>, <<SessionImage>>, <<SessionImage, SessionPdf>>,
     <<BrokenImage, BrokenPdf>>}

\* the state that a script run of the session leaves alone
beside_session == <<combine_input, combine_pc, combined, legacy_file,
                    quality_level, legacy_pc, legacy, policy, resize,
                    session, v2>>

\* system_message of analyze_images (line 167; line 116 of fix_rgba)
system_message == "system"

text_part(text) == [type |-> "text", text |-> text, image |-> None]

image_part(image) == [type |-> "image", text |-> "", image |-> image]

\* anthropic_ocr.py lines 170-213: one user message whose content is the
\* system text, the first message, the images and then the text of every
\* later message
anthropic_request(images, history) ==
    <<[role |-> "user",
       content |-> <<text_part(system_message),
                     text_part(history[1].content)>>
                   \o [k \in 1..Len(images) |-> image_part(images[k])]
                   \o [k \in 1..(Len(history) - 1) |->
                          text_part(history[k + 1].content)]]>>

\* fix_rgba_filedata_error.py lines 114-147 (img_4o_v2.py lines 22-59): a
\* system message, the first message with the images under the role user,
\* and every later message under its own role
openai_request(images, history) ==
    <<[role |-> "system", content |-> <<text_part(system_message)>>],
      [role |-> "user",
       content |-> <<text_part(history[1].content)>>
                   \o [k \in 1..Len(images) |-> image_part(images[k])]]>>
    \o [k \in 1..(Len(history) - 1) |->
           [role |-> history[k + 1].role,
            content |-> <<text_part(history[k + 1].content)>>]]

\* mutant: the images attached to every user message
openai_request_images_everywhere(images, history) ==
    <<[role |-> "system", content |-> <<text_part(system_message)>>]>>
    \o [k \in 1..Len(history) |->
           [role |-> history[k].role,
            content |-> <<text_part(history[k].content)>>
                \o (IF history[k].role = "user"
                    THEN [j \in 1..Len(images) |-> image_part(images[j])]
                    ELSE <<>>)]]

\* what the API call can end in: an answer, a transport or HTTP error, a
\* body without an expected key, a body whose list of choices is empty
ApiOutcomes == {"ok", "api_error", "missing_key", "empty_list"}

\* the exceptions of these outcomes that analyze_images handles: lines
\* 218-221 of anthropic_ocr.py (APIError, Exception), lines 168-171 of
\* fix_rgba_filedata_error.py (RequestException, KeyError)
handled(app) ==
    IF app = "anthropic_ocr" THEN {"api_error", "missing_key", "empty_list"}
    ELSE {"api_error", "missing_key"}

\* the string that analyze_images returns for an outcome it handles
response_text(outcome, n) ==
    CASE outcome = "ok" -> "answer " \o ToString(n)
      [] outcome = "api_error" -> "Error making request"
      [] outcome = "missing_key" -> "Error parsing API response"
      [] outcome = "empty_list" -> "Error processing request"

\* lines 305-314: the chat input.  A prompt is rejected when no image is
\* held or no API key is set, and main returns; otherwise it is appended to
\* the history
ChatInput ==
    /\ pc = "main_done"
    /\ chat.pc = "wait"
    /\ IF chat.event # "prompt"
       THEN /\ chat' = [chat EXCEPT !.pc = "button"]
            /\ UNCHANGED <<messages, errors>>
       ELSE IF processed_images = <<>>
       THEN /\ errors' = Append(errors, [by |-> "chat", file |-> "no file"])
            /\ chat' = [chat EXCEPT !.pc = "rejected"]
            /\ UNCHANGED messages
       ELSE IF ~chat.api_key
       THEN /\ errors' = Append(errors, [by |-> "chat", file |-> "no key"])
            /\ chat' = [chat EXCEPT !.pc = "rejected"]
            /\ UNCHANGED messages
       ELSE /\ messages' = Append(messages,
                               [role |-> "user", content |-> chat.prompt])
            /\ chat' = [chat EXCEPT !.pc = "analyze"]
            /\ UNCHANGED errors
    /\ UNCHANGED <<beside_session, inputs, pc, file_idx, processed_images,
                   image_captions, documents, pdf, img>>

\* analyze_images(processed_images, messages): the request is built and
\* sent; an outcome that raises an exception the function does not handle
\* ends the script run
ChatAnalyze ==
    /\ chat.pc = "analyze"
    /\ \E outcome \in ApiOutcomes :
          LET request == IF chat.app = "anthropic_ocr"
                         THEN anthropic_request(processed_images, messages)
                         ELSE openai_request(processed_images, messages)
          IN IF processed_images = <<>>
             THEN chat' = [chat EXCEPT
                      !.response = "Please upload at least one image.",
                      !.pc = "respond"]
             ELSE IF outcome = "ok" \/ outcome \in handled(chat.app)
             THEN chat' = [chat EXCEPT
                      !.request = request,
                      !.response = response_text(outcome, Len(messages)),
                      !.pc = "respond"]
             ELSE chat' = [chat EXCEPT !.request = request, !.pc = "raised"]
    /\ UNCHANGED <<beside_session, run, messages>>

\* mutant: the answer shown but not kept in the history
ChatRespond_not_kept ==
    /\ chat.pc = "respond"
    /\ messages' = messages
    /\ chat' = [chat EXCEPT !.pc = "button"]
    /\ UNCHANGED <<beside_session, run>>

\* line 326: the answer is appended to the history
ChatRespond ==
    /\ chat.pc = "respond"
    /\ messages' = Append(messages,
                          [role |-> "assistant", content |-> chat.response])
    /\ chat' = [chat EXCEPT !.pc = "button"]
    /\ UNCHANGED <<beside_session, run>>

\* mutant: the button clears the processed images with the history
ChatButton_clear_images ==
    /\ pc = "main_done"
    /\ chat.pc = "button"
    /\ IF chat.event = "clear"
       THEN /\ messages' = <<>>
            /\ chat' = [chat EXCEPT !.event = "none", !.pc = "wait",
                                    !.prompt = "", !.request = <<>>,
                                    !.response = ""]
            /\ pc' = "main_upload"
            /\ file_idx' = 0
            /\ errors' = <<>>
            /\ documents' = [i \in 1..Len(uploaded_files) |-> "unopened"]
            /\ processed_images' = <<>>
            /\ image_captions' = <<>>
       ELSE /\ chat' = [chat EXCEPT !.pc = "end"]
            /\ UNCHANGED <<messages, pc, file_idx, errors, documents,
                           processed_images, image_captions>>
    /\ UNCHANGED <<beside_session, inputs, pdf, img>>

\* lines 328-330: "Clear Chat History" empties the history and st.rerun()
\* starts the script again, with no widget triggered; without a click the
\* script run is over
ChatButton ==
    /\ pc = "main_done"
    /\ chat.pc = "button"
    /\ IF chat.event = "clear"
       THEN /\ messages' = <<>>
            /\ chat' = [chat EXCEPT !.event = "none", !.pc = "wait",
                                    !.prompt = "", !.request = <<>>,
                                    !.response = ""]
            /\ pc' = "main_upload"
            /\ file_idx' = 0
            /\ errors' = <<>>
            /\ documents' = [i \in 1..Len(uploaded_files) |-> "unopened"]
       ELSE /\ chat' = [chat EXCEPT !.pc = "end"]
            /\ UNCHANGED <<messages, pc, file_idx, errors, documents>>
    /\ UNCHANGED <<beside_session, inputs, processed_images, image_captions,
                   pdf, img>>

\* the user changes the content of the uploader, submits a prompt, or
\* presses the button where the last script run has drawn it; the script
\* runs again on the session state as it is
SessionRerun ==
    /\ chat.pc \in {"end", "rejected", "raised"}
    /\ chat.runs < MaxEvents
    /\ \E event \in {"upload", "prompt", "clear"}, files \in SessionUploads :
          /\ event = "upload" => files # uploaded_files
          /\ event # "upload" => files = uploaded_files
          /\ event = "clear" => chat.pc = "end"
          /\ uploaded_files' = files
          /\ documents' = [i \in 1..Len(files) |-> "unopened"]
          /\ chat' = [chat EXCEPT
                !.event = event,
                !.pc = "wait",
                !.prompt = IF event = "prompt"
                           THEN "prompt " \o ToString(chat.runs + 1) ELSE "",
                !.request = <<>>,
                !.response = "",
                !.runs = @ + 1]
    /\ pc' = "main_upload"
    /\ file_idx' = 0
    /\ errors' = <<>>
    /\ pdf' = PdfLocals
    /\ img' = None
    /\ UNCHANGED <<beside_session, quality, pdf_quality, processed_images,
                   image_captions, messages>>

InitSession ==
    /\ CombineIdle
    /\ LegacyIdle
    /\ PolicyIdle
    /\ ResizeIdle
    /\ v2 = V2Locals
    /\ uploaded_files \in SessionUploads
    /\ quality \in {"High", "Very High"}
    /\ pdf_quality = "Very High"
    /\ pc = "main_upload"
    /\ file_idx = 0
    /\ processed_images = <<>>
    /\ image_captions = <<>>
    /\ errors = <<>>
    /\ documents = [i \in 1..Len(uploaded_files) |-> "unopened"]
    /\ pdf = PdfLocals
    /\ img = None
    /\ messages = <<>>
    /\ \E app \in ChatApps, key \in BOOLEAN :
          chat = [ChatLocals EXCEPT !.app = app, !.api_key = key,
                                    !.event = "none", !.pc = "wait"]

NextSession ==
    \/ Next
    \/ ChatInput
    \/ ChatAnalyze
    \/ ChatRespond
    \/ ChatButton
    \/ SessionRerun

SpecSession == InitSession /\ [][NextSession]_vars

(***************************************************************************)
(* Properties.                                                             *)
(***************************************************************************)
RECURSIVE Flatten(_)
Flatten(seqs) == IF seqs = <<>> THEN <<>> ELSE seqs[1] \o Flatten(Tail(seqs))

PagesOf(payloads) == [k \in 1..Len(payloads) |-> payloads[k].pages]

\* pdf_to_images is inside its group loop
InGroupLoop == pc \in {"pdf_group", "pdf_page", "pdf_encode"}

\* pdf_to_images has returned normally to main
ReturnedNormally == pc = "main_extend" /\ documents[file_idx] = "closed"

\* C1: the page groups of pdf_to_images are contiguous, disjoint and cover
\* [0, totalPages): group k spans [k*p, min((k+1)*p, totalPages)), there are
\* ceil(totalPages/p) of them and only the last may be shorter than p, for
\* every p of the policy table.
C1_GroupsPartitionPages ==
    LET p == pdf.pages_per_image
        n == pdf.total_pages
    IN /\ InGroupLoop =>
            /\ p \in {1, 2, 4, 6, 8}
            /\ Len(pdf.images) = pdf.group_idx
            /\ \A k \in 1..Len(pdf.images) :
                   pdf.images[k].pages = PagesFromTo((k - 1) * p, Min(k * p, n))
       /\ pc \in {"pdf_page", "pdf_encode"} =>
            /\ pdf.start_page = pdf.group_idx * p
            /\ pdf.end_page = Min((pdf.group_idx + 1) * p, n)
            /\ pdf.start_page < pdf.end_page
            /\ (pdf.end_page - pdf.start_page < p => pdf.end_page = n)
            /\ [k \in 1..Len(pdf.page_images) |-> pdf.page_images[k].page]
                   = PagesFromTo(pdf.start_page, pdf.page_num)
       /\ ReturnedNormally =>
            LET g == Len(pdf.ret.images)
            IN /\ (g - 1) * p < n /\ n <= g * p
               /\ Flatten(PagesOf(pdf.ret.images)) = PagesFromTo(0, n)
               /\ \A k \in 1..(g - 1) : Len(pdf.ret.images[k].pages) = p
               /\ g > 0 => Len(pdf.ret.images[g].pages) \in 1..p

\* a short final group is being encoded after full ones
C1_Witness ==
    /\ pc = "pdf_encode"
    /\ pdf.total_pages = 7
    /\ pdf.pages_per_image = 2
    /\ pdf.group_idx = 3
    /\ Len(pdf.page_images) = 1

\* C3: the caption of a group [start, end) is "<name> - Page <start+1>" exactly
\* when end = start + 1 and "<name> - Pages <start+1>-<end>" otherwise; a
\* one-page document at one page per image yields the single caption "Page 1".
C3_CaptionOfGroup ==
    /\ \A k \in 1..Len(pdf.captions) :
          LET pages == pdf.images[k].pages
              start == pages[1]
              end == pages[Len(pages)] + 1
          IN pdf.captions[k] =
                 IF end = start + 1
                 THEN file.name \o " - Page " \o ToString(start + 1)
                 ELSE file.name \o " - Pages " \o ToString(start + 1)
                          \o "-" \o ToString(end)
    /\ Len(pdf.captions) = Len(pdf.images)
    /\ (ReturnedNormally /\ file.page_count = 1 /\ pdf.pages_per_image = 1) =>
          /\ Len(pdf.ret.images) = 1
          /\ pdf.ret.captions = <<file.name \o " - Page 1">>

\* captions of both forms have been produced for one document
C3_Witness ==
    /\ ReturnedNormally
    /\ file.page_count = 5
    /\ pdf.ret.captions = <<"file1.pdf - Pages 1-4", "file1.pdf - Page 5">>

\* C4: a 10-page document at PDF quality "Medium" (4 pages per image) yields
\* exactly the payloads of [0,4), [4,8), [8,10), in this order, captioned
\* "Pages 1-4", "Pages 5-8", "Pages 9-10".
C4_TenPagesMedium ==
    (ReturnedNormally /\ file.page_count = 10 /\ pdf_quality = "Medium") =>
        /\ PagesOf(pdf.ret.images) = <<<<0, 1, 2, 3>>, <<4, 5, 6, 7>>, <<8, 9>>>>
        /\ pdf.ret.captions = <<"file1.pdf - Pages 1-4",
                                "file1.pdf - Pages 5-8",
                                "file1.pdf - Pages 9-10">>

C4_Witness ==
    /\ ReturnedNormally
    /\ file.page_count = 10
    /\ pdf_quality = "Medium"
    /\ Len(pdf.ret.images) = 3

\* the reports made for one file, and the payloads made from it
ErrorsFor(name) == {k \in 1..Len(errors) : errors[k].file = name}

PayloadsOf(name) ==
    LET FromFile(payload) == payload.src = name
    IN SelectSeq(processed_images, FromFile)

\* C5: when rasterizing a page fails, at any page index, pdf_to_images returns
\* two empty sequences, so that nothing built before the failure reaches the
\* caller, and exactly one error is reported for the document.
C5_AbortReturnsNothing ==
    /\ (pc = "main_extend" /\ file.bad_page > 0) =>
          /\ pdf.ret = [images |-> <<>>, captions |-> <<>>]
          /\ Cardinality(ErrorsFor(file.name)) = 1
    /\ \A i \in 1..Len(uploaded_files) :
          (/\ uploaded_files[i].type = "application/pdf"
           /\ uploaded_files[i].bad_page > 0
           /\ (file_idx > i \/ pc = "main_done")) =>
              /\ PayloadsOf(uploaded_files[i].name) = <<>>
              /\ Cardinality(ErrorsFor(uploaded_files[i].name)) = 1
              /\ Len(processed_images) = Len(image_captions)

\* the failure came after an earlier group had been encoded and appended
C5_Witness ==
    /\ pc = "main_extend"
    /\ file.bad_page = 5
    /\ Len(pdf.images) = 2
    /\ pdf.ret.images = <<>>

\* C6: once opened, the document handle is closed on every exit path of
\* pdf_to_images.
C6_HandleReleasedOnExit ==
    pc = "main_extend" => documents[file_idx] # "open"

\* C10: on both encode paths of process_image, for every source mode, the
\* image handed to the JPEG encoder is in RGB mode, the alpha modes having been
\* flattened first; no payload of an image file has another mode.
C10_RgbAtEncode ==
    /\ pc \in {"img_encode_direct", "img_encode_resized"} =>
          /\ img.mode = "RGB"
          /\ file.mode \in {"RGBA", "LA"} => img.over_white
    /\ \A k \in 1..Len(processed_images) : processed_images[k].mode = "RGB"

\* a palette image with transparency reaches the encoder after a resize, and an
\* RGBA one reaches the direct encode
C10_Witness ==
    \/ /\ pc = "img_encode_resized"
       /\ file.mode = "P"
       /\ file.transparency
       /\ img.mode = "RGB"
    \/ /\ pc = "img_encode_direct"
       /\ file.mode = "RGBA"
       /\ img.mode = "RGB"

\* sum of the heights of the first k images of a list
RECURSIVE HeightsBefore(_, _)
HeightsBefore(images, k) ==
    IF k = 0 THEN 0 ELSE images[k].height + HeightsBefore(images, k - 1)

CombineReturned == combine_pc = "returned" /\ combine_input # <<>>

\* C8: for every non-empty list of images, the canvas returned by
\* combine_images_vertically is as high as the sum of their heights and as
\* wide as the widest of them.
C8_CanvasSize ==
    CombineReturned =>
        /\ combined.height = HeightsBefore(combine_input, Len(combine_input))
        /\ \A k \in 1..Len(combine_input) :
               combined.width >= combine_input[k].width
        /\ \E k \in 1..Len(combine_input) :
               combined.width = combine_input[k].width

\* images of different widths and heights, the widest not the first
C8_Witness ==
    /\ CombineReturned
    /\ Len(combine_input) = 3
    /\ combine_input[1].width < combine_input[2].width
    /\ combine_input[1].height # combine_input[3].height
    /\ combined.width = combine_input[2].width

\* C9: image i is pasted, in input order, at the vertical offset that is the sum
\* of the heights before it and at the horizontal offset
\* floor((maxWidth - width_i) / 2); so every pasted rectangle lies inside the
\* canvas, no two overlap, and the left and right margins of an image differ by
\* at most one pixel.
C9_PasteLayout ==
    CombineReturned =>
        /\ Len(combined.pastes) = Len(combine_input)
        /\ \A i \in 1..Len(combine_input) :
              LET r == combined.pastes[i]
                  left == r.x
                  right == combined.width - r.width - r.x
              IN /\ r.page = combine_input[i].page
                 /\ r.width = combine_input[i].width
                 /\ r.height = combine_input[i].height
                 /\ r.y = HeightsBefore(combine_input, i - 1)
                 /\ 2 * r.x <= combined.width - r.width
                 /\ combined.width - r.width <= 2 * r.x + 1
                 /\ r.x >= 0 /\ r.x + r.width <= combined.width
                 /\ r.y >= 0 /\ r.y + r.height <= combined.height
                 /\ right - left \in {0, 1}
                 /\ \A j \in 1..(i - 1) :
                        combined.pastes[j].y + combined.pastes[j].height <= r.y

\* a narrower image with an odd width difference, pasted below a wider one
C9_Witness ==
    /\ CombineReturned
    /\ Len(combine_input) >= 2
    /\ combine_input[1].width = 7
    /\ combine_input[2].width = 4
    /\ combined.pastes[2].x = 1
    /\ combined.pastes[2].y = combine_input[1].height

\* what the caption of the group [start, end) of a document has to be
ExpectedCaption(name, start, end) ==
    IF end = start + 1
    THEN name \o " - Page " \o ToString(start + 1)
    ELSE name \o " - Pages " \o ToString(start + 1) \o "-" \o ToString(end)

\* a PDF all of whose pages render, and one with a bad page or malformed bytes
ValidPdf(f) ==
    f.type = "application/pdf" /\ f.openable /\ f.bad_page = 0

FailingPdf(f) ==
    f.type = "application/pdf" /\ (~f.openable \/ f.bad_page > 0)

\* an image file that decodes and keeps at least one pixel at the chosen zoom
ValidImage(f) ==
    /\ f.type # "application/pdf"
    /\ f.openable
    /\ \/ quality = "Very High"
       \/ /\ f.width * zoom_quality_map[quality] >= ZoomDen
          /\ f.height * zoom_quality_map[quality] >= ZoomDen

\* the captions stored beside the payloads of one file, in order
CaptionsOf(name) ==
    LET at == {k \in 1..Len(processed_images) : processed_images[k].src = name}
        FromFile(k) == k \in at
    IN [j \in 1..Cardinality(at) |->
           image_captions[SelectSeq([k \in 1..Len(processed_images) |-> k],
                                    FromFile)[j]]]

\* C7: in the batch loop of main a failing file does not affect the others: a
\* document that fails (on its third page, say) contributes no payload and
\* exactly one error report, and a valid file of the same batch contributes its
\* full payload and caption sequence, whatever the order of the two.
C7_BatchIsolation ==
    pc = "main_done" =>
        /\ Len(processed_images) = Len(image_captions)
        /\ \A i \in 1..Len(uploaded_files) :
              LET f == uploaded_files[i]
                  p == pages_quality_map[pdf_quality]
                  mine == PayloadsOf(f.name)
                  g == Len(mine)
              IN /\ (FailingPdf(f) \/ (f.type # "application/pdf" /\ ~ValidImage(f)))
                        => /\ mine = <<>>
                           /\ Cardinality(ErrorsFor(f.name)) = 1
                 /\ ValidPdf(f) =>
                        /\ ErrorsFor(f.name) = {}
                        /\ Flatten(PagesOf(mine)) = PagesFromTo(0, f.page_count)
                        /\ (g - 1) * p < f.page_count /\ f.page_count <= g * p
                        /\ CaptionsOf(f.name) =
                               [k \in 1..g |->
                                   ExpectedCaption(f.name, mine[k].pages[1],
                                       mine[k].pages[Len(mine[k].pages)] + 1)]
                 /\ ValidImage(f) =>
                        /\ ErrorsFor(f.name) = {}
                        /\ g = 1
                        /\ CaptionsOf(f.name) = <<f.name>>
        /\ \A k \in 1..(Len(processed_images) - 1) :
              processed_images[k].src = uploaded_files[1].name
                  \/ processed_images[k + 1].src = uploaded_files[2].name

\* the first document failed on its third page after a group was built, and the
\* second, valid one still gave both of its payloads
C7_Witness ==
    /\ pc = "main_done"
    /\ uploaded_files[1].type = "application/pdf"
    /\ uploaded_files[1].bad_page = 3
    /\ ValidPdf(uploaded_files[2])
    /\ uploaded_files[2].page_count = 3
    /\ pdf_quality = "High"
    /\ image_captions = <<"file2.pdf - Pages 1-2", "file2.pdf - Page 3">>
    /\ errors = <<[by |-> "pdf_to_images", file |-> "file1.pdf"]>>

\* C2: convert_pdf_to_images of st_img_4o_pdf always emits the short final
\* group: when totalPages is no multiple of pagesPerGroup, every page of the
\* document, the remainder pages included, is in an output image.
C2_RemainderEmitted ==
    (/\ legacy_pc = "returned"
     /\ legacy.total_pages >= 1
     /\ legacy.total_pages % legacy.pages_per_image # 0) =>
        \A page \in 0..(legacy.total_pages - 1) :
            \E k \in 1..Len(legacy.processed_images) :
                \E j \in 1..Len(legacy.processed_images[k].pages) :
                    legacy.processed_images[k].pages[j] = page

\* process_image has normalized the colour of the image and not yet resized or
\* encoded it
Normalized == pc \in {"img_encode_direct", "img_resize"}

\* C11: the colour normalizer of process_image composites over a white canvas
\* of the same size, through the alpha band, every source image that has an
\* alpha or transparency channel (RGBA, LA, PA, or a 'transparency' info
\* entry), converts directly only the images that have none, and keeps the
\* dimensions of the input.
C11_AlphaCompositedOverWhite ==
    Normalized =>
        /\ img.width = file.width
        /\ img.height = file.height
        /\ img.mode = "RGB"
        /\ (file.mode \in AlphaModes \/ file.transparency) =>
               /\ img.over_white
               /\ img.pixel = paste_over_white(file.pixel, file.alpha)
        /\ ~(file.mode \in AlphaModes \/ file.transparency) =>
               /\ ~img.over_white
               /\ img.pixel = file.pixel

\* C12: at "Very High" process_image never resamples: the resize step and its
\* zoom lookup are not reached, and the encoded payload has exactly the width
\* and height of the input.
C12_VeryHighNoResample ==
    quality = "Very High" =>
        /\ pc \notin {"img_resize", "img_encode_resized"}
        /\ pc = "main_append" =>
               /\ img.width = file.width
               /\ img.height = file.height

\* an image of 40 by 30 pixels has been encoded directly at "Very High"
C12_Witness ==
    /\ pc = "main_append"
    /\ quality = "Very High"
    /\ file.width = 40
    /\ file.height = 30
    /\ img.width = 40
    /\ img.format = "JPEG"

\* a <= b for two fractions with positive denominators
FracLeq(a, b) == a.num * b.den <= b.num * a.den

\* C13: at each of the five quality levels every zoom table and every
\* pages-per-group table, string-keyed or keyed by 1..5, gives a defined,
\* positive value; with the levels ordered from "Very Low" to "Very High" the
\* zoom never decreases and the pages per group never increase.
C13_PolicyTablesMonotone ==
    policy.pc = "returned" /\ {policy.lo, policy.hi} \subseteq 1..5 =>
        /\ policy.out_lo.num > 0 /\ policy.out_lo.den > 0
        /\ policy.out_hi.num > 0 /\ policy.out_hi.den > 0
        /\ policy.lo <= policy.hi =>
               IF policy.table \in ZoomTables
               THEN FracLeq(policy.out_lo, policy.out_hi)
               ELSE FracLeq(policy.out_hi, policy.out_lo)

\* the two closest zoom values, 0.25 and 0.33, have been looked up
C13_Witness ==
    /\ policy.pc = "returned"
    /\ policy.table = "fix_rgba.get_zoom_factor"
    /\ policy.lo = 2
    /\ policy.hi = 3
    /\ policy.out_lo = [num |-> 1, den |-> 4]
    /\ policy.out_hi = [num |-> 33, den |-> 100]

\* the page rectangles of a group rasterized at a zoom, and the size of their
\* composite
RasterSizes(f, pages, zoom) ==
    [k \in 1..Len(pages) |->
        [width |-> get_pixmap(f, pages[k], zoom).width,
         height |-> get_pixmap(f, pages[k], zoom).height]]

CompositeWidth(f, pages, zoom) ==
    MaxSeq([k \in 1..Len(pages) |-> RasterSizes(f, pages, zoom)[k].width])

CompositeHeight(f, pages, zoom) ==
    SumSeq([k \in 1..Len(pages) |-> RasterSizes(f, pages, zoom)[k].height])

\* C14: the two selectors of pdf_to_images are independent.  The number of
\* payloads, the group boundaries and the captions are a function of
\* pdf_quality and the page count alone, and the zoom at which every page is
\* rasterized is a function of quality alone.
C14_SelectorsIndependent ==
    LET p == pages_quality_map[pdf_quality]
        z == zoom_quality_map[quality]
        n == file.page_count
    IN /\ InGroupLoop =>
            /\ pdf.pages_per_image = p
            /\ pdf.zoom_factor = z
            /\ pdf.num_combined_images = (n + p - 1) \div p
            /\ \A k \in 1..Len(pdf.page_images) :
                   pdf.page_images[k] =
                       get_pixmap(file, pdf.page_images[k].page, z)
       /\ ReturnedNormally =>
            /\ Len(pdf.ret.images) = (n + p - 1) \div p
            /\ \A k \in 1..Len(pdf.ret.images) :
                   LET start == (k - 1) * p
                       end == Min(k * p, n)
                       payload == pdf.ret.images[k]
                   IN /\ payload.pages = PagesFromTo(start, end)
                      /\ pdf.ret.captions[k] =
                             ExpectedCaption(file.name, start, end)
                      /\ payload.width =
                             CompositeWidth(file, PagesFromTo(start, end), z)
                      /\ payload.height =
                             CompositeHeight(file, PagesFromTo(start, end), z)

\* the lowest zoom together with one page per image: three payloads of three
\* pages
C14_Witness ==
    /\ ReturnedNormally
    /\ quality = "Very Low"
    /\ pdf_quality = "Very High"
    /\ file.page_count = 3
    /\ Len(pdf.ret.images) = 3
    /\ pdf.ret.images[1].width = 2

\* pdf_to_images is between its entry and its return
InPdfToImages ==
    pc \in {"pdf_open", "pdf_lookup", "pdf_group", "pdf_page", "pdf_encode",
            "pdf_except"}

\* C15: in pdf_to_images the policy lookups are made, and the levels checked,
\* before the bytes of the document are read and its handle opened, so that a
\* level outside the table is never reported as a failure of the document.
C15_LookupsBeforeOpen ==
    (InPdfToImages /\ documents[file_idx] = "open") =>
        /\ pdf.zoom_factor = zoom_quality_map[quality]
        /\ pdf.pages_per_image = pages_quality_map[pdf_quality]

\* the caption that belongs to a payload: the page range of a page group, the
\* file name of a standalone image
CaptionFor(payload) ==
    IF payload.pages = <<>> THEN payload.src
    ELSE ExpectedCaption(payload.src, payload.pages[1],
                         payload.pages[Len(payload.pages)] + 1)

\* C16: payloads and captions stay parallel.  What pdf_to_images builds and
\* returns is two sequences of equal length, the i-th caption naming the page
\* range of the i-th payload, the ranges ascending; the session lists
\* processed_images and image_captions have equal length and matching entries
\* at every point of a batch, also when a file of the batch fails.
C16_PayloadsCaptionsParallel ==
    /\ Len(pdf.images) = Len(pdf.captions)
    /\ \A k \in 1..Len(pdf.images) :
          /\ pdf.captions[k] = CaptionFor(pdf.images[k])
          /\ k > 1 => pdf.images[k - 1].pages[Len(pdf.images[k - 1].pages)]
                          < pdf.images[k].pages[1]
    /\ pc = "main_extend" =>
          /\ Len(pdf.ret.images) = Len(pdf.ret.captions)
          /\ \A k \in 1..Len(pdf.ret.images) :
                 pdf.ret.captions[k] = CaptionFor(pdf.ret.images[k])
    /\ Len(processed_images) = Len(image_captions)
    /\ \A k \in 1..Len(processed_images) :
          image_captions[k] = CaptionFor(processed_images[k])

\* a batch whose first document failed on its second page and whose second file
\* is an image: one payload, one caption, one error
C16_Witness ==
    /\ pc = "main_done"
    /\ uploaded_files[1].type = "application/pdf"
    /\ uploaded_files[1].bad_page = 2
    /\ pdf_quality = "Very High"
    /\ Len(errors) = 1
    /\ Len(processed_images) = 1
    /\ image_captions = <<"file2.png">>

\* C17: pdf_to_images goes through Opened, then once per group Grouping,
\* Rasterizing, Compositing, Encoding, then Closed.  A group is composited only
\* when every one of its pages has been rasterized; a payload is appended only
\* as the encoding of the composite just built; a page of group k+1 is
\* rasterized only when the payload of group k has been appended; and the
\* handle is closed only when the payload of the last group has been appended.
C17_Step ==
    /\ (pc = "pdf_open" /\ pc' # pc) => pc' \in {"pdf_lookup", "pdf_except"}
    /\ (pc = "pdf_lookup" /\ pc' # pc) => pc' \in {"pdf_group", "pdf_except"}
    /\ (pc = "pdf_group" /\ pc' # pc) => pc' \in {"pdf_page", "main_extend"}
    /\ (pc = "pdf_page" /\ pc' # pc) => pc' \in {"pdf_encode", "pdf_except"}
    /\ (pc = "pdf_encode" /\ pc' # pc) => pc' \in {"pdf_group", "pdf_except"}
    /\ (InPdfToImages /\ pc' = "pdf_encode") =>
          /\ pc = "pdf_page"
          /\ [k \in 1..Len(pdf.page_images) |-> pdf.page_images[k].page]
                 = PagesFromTo(pdf.start_page, pdf.end_page)
          /\ pdf'.combined_image = combine_images_vertically(pdf.page_images)
    /\ (InPdfToImages /\ pdf'.images # pdf.images) =>
          /\ pc = "pdf_encode"
          /\ pdf.combined_image # None
          /\ pdf'.images = Append(pdf.images,
                 save_jpeg(pdf.combined_image,
                           PagesFromTo(pdf.start_page, pdf.end_page), file.name))
          /\ pdf'.group_idx = pdf.group_idx + 1
    /\ (InPdfToImages /\ Len(pdf'.page_images) > Len(pdf.page_images)) =>
          /\ pc = "pdf_page"
          /\ Len(pdf.images) = pdf.group_idx
          /\ pdf.group_idx * pdf.pages_per_image <= pdf.page_num
          /\ pdf.page_num < (pdf.group_idx + 1) * pdf.pages_per_image
    /\ (InPdfToImages /\ documents' # documents /\ pc # "pdf_open") =>
          /\ pc = "pdf_group"
          /\ documents[file_idx] = "open"
          /\ documents'[file_idx] = "closed"
          /\ Len(pdf.images) = pdf.num_combined_images
          /\ pdf.num_combined_images * pdf.pages_per_image >= pdf.total_pages

C17_GroupLifecycle == [][C17_Step]_vars

\* the first page of the second group has been rasterized, the payload of the
\* first group being in the list
C17_Witness ==
    /\ pc = "pdf_page"
    /\ pdf.group_idx = 1
    /\ pdf.pages_per_image = 2
    /\ Len(pdf.page_images) = 1
    /\ Len(pdf.images) = 1
    /\ pdf.images[1].pages = <<0, 1>>

\* what pdf_to_images has to return for a document at two quality levels,
\* from the document and the levels alone
ConverterResult(f, q, pq) ==
    LET z == zoom_quality_map[q]
        p == pages_quality_map[pq]
        n == f.page_count
        g == (n + p - 1) \div p
        pages(k) == PagesFromTo((k - 1) * p, Min(k * p, n))
    IN IF ~f.openable \/ f.bad_page > 0
       THEN [images |-> <<>>, captions |-> <<>>]
       ELSE [images |->
                 [k \in 1..g |->
                     [format |-> "JPEG", mode |-> "RGB",
                      width |-> CompositeWidth(f, pages(k), z),
                      height |-> CompositeHeight(f, pages(k), z),
                      pages |-> pages(k), src |-> f.name]],
             captions |->
                 [k \in 1..g |->
                     ExpectedCaption(f.name, (k - 1) * p, Min(k * p, n))]]

\* convert_pdf_to_images of img_pdf_resize.py is between its entry and its
\* return
InResizeConverter == resize.pc \in {"call", "lookup", "except"}

\* no step of a converter changes the session state or the selectors
C18_Step ==
    /\ InPdfToImages =>
          UNCHANGED <<processed_images, image_captions, uploaded_files,
                      quality, pdf_quality, session>>
    /\ InResizeConverter =>
          UNCHANGED <<session, processed_images, image_captions>>

C19_NoEmptyGroup ==
    /\ (combine_pc = "returned" /\ combine_input = <<>>) => combined = None
    /\ (InGroupLoop /\ pdf.total_pages = 0) =>
          /\ pdf.num_combined_images = 0
          /\ pc = "pdf_group"
    /\ pc \in {"pdf_page", "pdf_encode"} =>
          /\ pdf.start_page < pdf.end_page
          /\ pdf.end_page <= pdf.total_pages
    /\ pc = "pdf_encode" =>
          /\ Len(pdf.page_images) >= 1
          /\ pdf.combined_image # None
          /\ pdf.combined_image.height >= 1

\* the last group of a document whose page count is a multiple of the group
\* size is at the encode step
C19_Witness ==
    /\ pc = "pdf_encode"
    /\ pdf.total_pages = 8
    /\ pdf.pages_per_image = 4
    /\ pdf.group_idx = 1
    /\ Len(pdf.page_images) = 4
    /\ pdf.combined_image # None

\* C20: the colour normalization of process_image is idempotent: an RGB image
\* comes out as it went in, neither branch being taken, and normalizing what a
\* normalization gave changes nothing, for every source mode.
C20_NormalizeIdempotent ==
    Normalized =>
        /\ normalize_color(img) = img
        /\ file.mode = "RGB" => img = image_open(file)
        /\ normalize_color(normalize_color(image_open(file)))
               = normalize_color(image_open(file))

\* a half transparent black RGBA pixel has been blended to mid grey
C20_Witness ==
    /\ Normalized
    /\ file.mode = "RGBA"
    /\ file.alpha = 128
    /\ file.pixel = 0
    /\ img.mode = "RGB"
    /\ img.pixel = 127

\* C21: a lookup at a level outside the enumerated domain ends in an error in
\* every table, string-keyed or integer-keyed; no value is substituted.
C21_UnknownLevelRaises ==
    policy.pc = "returned" /\ policy.lo \notin 1..5 =>
        policy.out_lo.num = KeyError

\* the converter of img_pdf_v2.py has returned from line 90
V2ReturnedNormally ==
    v2.pc = "returned" /\ v2.conv.document = "closed"

\* C22: the skip test of line 49 of img_pdf_v2.py is never true, so that no
\* group is skipped, and when the converter returns from its loop the pages
\* of the images it returns are the pages of the document, each once and in
\* order, the short last group included.
C22_NoGroupSkipped ==
    /\ v2.conv.skipped = <<>>
    /\ V2ReturnedNormally =>
           Flatten([k \in 1..Len(v2.conv.ret) |-> v2.conv.ret[k].pages])
               = PagesFromTo(0, v2.conv.total_pages)

\* ten pages at four pages per image: the last group holds pages 9 and 10
C22_Witness ==
    /\ V2ReturnedNormally
    /\ v2.conv.total_pages = 10
    /\ v2.conv.pages_per_image = 4
    /\ Len(v2.conv.ret) = 3
    /\ v2.conv.ret[3].pages = <<8, 9>>

\* C23: every composite that the converter of img_pdf_v2.py builds is as
\* wide as its widest page and as high as the sum of its page heights, and
\* every page lies inside the canvas and ends where the next one starts.
C23_LegacyCanvasFitsPages ==
    \A g \in DOMAIN v2.conv.processed_images :
        LET canvas == v2.conv.processed_images[g].data
            n == Len(canvas.pastes)
        IN /\ canvas.width = MaxSeq([k \in 1..n |-> canvas.pastes[k].width])
           /\ canvas.height = SumSeq([k \in 1..n |-> canvas.pastes[k].height])
           /\ \A k \in 1..n :
                  /\ canvas.pastes[k].x + canvas.pastes[k].width <= canvas.width
                  /\ canvas.pastes[k].y + canvas.pastes[k].height
                         <= canvas.height
                  /\ k < n => canvas.pastes[k + 1].y
                                  = canvas.pastes[k].y + canvas.pastes[k].height

\* C29: in main of img_pdf_v2.py no script run ends in an IndexError, a
\* converted image is shown under its own name, and at the end of a run
\* processed_pdfs holds the images of the PDFs now uploaded and no other.
C29_PdfCaptionsInRange ==
    /\ v2.pc # "raised"
    /\ \A k \in DOMAIN v2.shown :
           ~v2.shown[k].file.has_name =>
               v2.shown[k].caption = v2.shown[k].file.name
    /\ v2.pc = "done" =>
           [k \in 1..Len(v2.processed_pdfs) |-> v2.processed_pdfs[k].name]
               = [k \in 1..Len(SelectSeq(v2.all_files,
                                          LAMBDA a : ~a.has_name)) |->
                     SelectSeq(v2.all_files, LAMBDA a : ~a.has_name)[k].name]

\* the zoom of the level that process_image resizes at, in hundredths
ResizeZoom == zoom_quality_map[quality]

\* the image of a file has been resized and awaits encoding
Resized ==
    /\ pc = "img_encode_resized"
    /\ file_idx \in DOMAIN uploaded_files
    /\ file.type # "application/pdf"

\* C24 as stated: below "Very High" each output dimension is the floor of the
\* exact product of the input dimension and the decimal zoom of the table.
C24_ScaledIsExactFloor ==
    Resized =>
        /\ quality # "Very High"
        /\ img.width = (file.width * ResizeZoom) \div ZoomDen
        /\ img.height = (file.height * ResizeZoom) \div ZoomDen
        /\ img.width <= file.width
        /\ img.height <= file.height

\* one output dimension against its input dimension: the floor of the exact
\* product, or one less where the zoom is 0.7 and the exact product is an
\* integer
WithinOneOfFloor(out, in) ==
    LET exact == (in * ResizeZoom) \div ZoomDen
    IN /\ out \in {exact - 1, exact}
       /\ out = exact - 1 =>
              ResizeZoom = 70 /\ (in * ResizeZoom) % ZoomDen = 0
       /\ out <= in

\* C24, amended: below "Very High" both dimensions are scaled by the zoom of
\* the table for the level; each output dimension is the floor of the exact
\* product, or one less than it when the zoom is 0.7 and the exact product is
\* an integer (the double product falls short of it); the output never
\* exceeds the input.
C24_ScaledWithinOneOfFloor ==
    Resized =>
        /\ quality # "Very High"
        /\ WithinOneOfFloor(img.width, file.width)
        /\ WithinOneOfFloor(img.height, file.height)

\* a width of 90 at "High": 90 * 0.7 is 62.99999999999999, truncated to 62
C24_Witness ==
    /\ Resized
    /\ quality = "High"
    /\ file.width = 90
    /\ file.height = 30
    /\ img.width = 62
    /\ img.height = 21

\* C25: every image that can be decoded is resized to at least one pixel in
\* each dimension: the dimensions handed to resize are never below 1, and no
\* decodable image ends in the handler of the batch loop.
C25_NoDegenerateDimensions ==
    /\ pc = "img_resize" /\ quality \in DOMAIN zoom_quality_map =>
           /\ scaled_dim(img.width, ResizeZoom) >= 1
           /\ scaled_dim(img.height, ResizeZoom) >= 1
    /\ (pc = "main_except" /\ file.type # "application/pdf") =>
           ~file.openable

\* a script run of the session is over
RunOver == chat.pc \in {"end", "rejected", "raised"}

\* names of the files in the uploader that can be decoded, in upload order
DecodableNames ==
    LET ok == SelectSeq(uploaded_files, LAMBDA f : f.openable)
    IN [k \in 1..Len(ok) |-> ok[k].name]

\* the images that a request attaches, message by message
ImagesOf(request) ==
    Flatten([k \in 1..Len(request) |->
        LET parts == SelectSeq(request[k].content,
                               LAMBDA part : part.type = "image")
        IN [j \in 1..Len(parts) |-> parts[j].image]])

\* C26: after every script run processed_images and image_captions hold the
\* payloads and captions of the files now in the uploader, one per file and
\* in upload order; they are empty when the uploader is empty, and a request
\* never attaches the image of a file that is no longer uploaded.
C26_SessionTracksUploader ==
    /\ RunOver =>
           /\ [k \in 1..Len(processed_images) |-> processed_images[k].src]
                  = DecodableNames
           /\ Len(image_captions) = Len(processed_images)
           /\ uploaded_files = <<>> =>
                  processed_images = <<>> /\ image_captions = <<>>
    /\ chat.request # <<>> =>
           \A k \in DOMAIN ImagesOf(chat.request) :
               \E i \in DOMAIN uploaded_files :
                   uploaded_files[i].name = ImagesOf(chat.request)[k].src

\* C27: outside the handling of an accepted prompt the history is a strictly
\* alternating sequence of user and assistant messages of even length.
C27_HistoryAlternates ==
    chat.pc \notin {"analyze", "respond"} =>
        /\ Len(messages) % 2 = 0
        /\ \A k \in DOMAIN messages :
               messages[k].role = IF k % 2 = 1 THEN "user" ELSE "assistant"

\* the texts of a request other than the system text, each with the role of
\* the message that carries it
TextsOf(request) ==
    Flatten([k \in 1..Len(request) |->
        LET parts == SelectSeq(request[k].content,
                               LAMBDA part : part.type = "text"
                                             /\ part.text # system_message)
        IN [j \in 1..Len(parts) |->
               [role |-> request[k].role, content |-> parts[j].text]]])

\* the request holds the images in the first message of role user and
\* nowhere else
ImagesInFirstUserMessage(request, images) ==
    LET users == {k \in DOMAIN request : request[k].role = "user"}
        first == CHOOSE k \in users : \A o \in users : k <= o
    IN /\ users # {}
       /\ ImagesOf(<<request[first]>>) = images
       /\ ImagesOf(request) = images

\* a request has been built from the history as it stands
RequestSent == chat.pc \in {"respond", "raised"} /\ chat.request # <<>>

\* C28: the request that analyze_images sends holds every message of the
\* history once, in order and under its own role, and every image once, in
\* order, in the first user message only; without images nothing is sent and
\* the fixed notice is returned.
C28_RequestMirrorsHistory ==
    /\ RequestSent =>
           /\ TextsOf(chat.request) = messages
           /\ ImagesInFirstUserMessage(chat.request, processed_images)
    /\ (chat.pc = "respond" /\ processed_images = <<>>) =>
           /\ chat.request = <<>>
           /\ chat.response = "Please upload at least one image."

\* a step of the "Clear Chat History" button
C30_Step ==
    (chat.pc = "button" /\ chat.event = "clear" /\ chat' # chat) =>
        /\ messages' = <<>>
        /\ UNCHANGED <<processed_images, image_captions, uploaded_files>>

\* a prompt sent while it is the only message of the history goes out as the
\* first message, with every current image attached
FirstPromptCarriesImages ==
    (RequestSent /\ Len(messages) = 1) =>
        /\ TextsOf(chat.request)
               = <<[role |-> "user", content |-> chat.prompt]>>
        /\ ImagesInFirstUserMessage(chat.request, processed_images)
        /\ processed_images # <<>>

\* C30: pressing "Clear Chat History" empties the history and leaves
\* processed_images, image_captions and the uploaded files as they are; the
\* next accepted prompt is sent as the first message with all current images.
C30_ClearKeepsImages ==
    [][C30_Step]_vars /\ []FirstPromptCarriesImages

\* the script run that st.rerun() started after a click on the button is
\* over: the history is empty, the two images are still held
C30_Witness ==
    /\ chat.pc = "end"
    /\ chat.event = "none"
    /\ chat.runs = 2
    /\ chat.api_key
    /\ Len(uploaded_files) = 2
    /\ messages = <<>>
    /\ Len(processed_images) = 2
    /\ Len(image_captions) = 2

====
